---- MODULE Spec2Model ----
(***************************************************************************)
(* hide-rs: BLTM (binary lower triangular matrix) LSB steganography.       *)
(*                                                                         *)
(* The module models the codec of src/src: the matrix engine (bltm.rs),    *)
(* the bit utilities (utils.rs), the pixel accessor (img.rs), the encoder  *)
(* (encoder.rs) and the decoder (decoder.rs).  Images are RGB8 buffers,    *)
(* stored row-major; a bit is 0 or 1, a byte is 0..255.                    *)
(*                                                                         *)
(* Spec      : one image: it is encoded into or not, then its owner calls  *)
(*             set_lsb on the stego image or not, then it is decoded or    *)
(*             its raw data is extracted; the pixel loops of encode and    *)
(*             decode advance one pixel per step.                          *)
(* PixelSpec : encode_pixel / decode_pixel / lookup_vn on single pixels.   *)
(* PairSpec  : decode applied to two images of the same dimensions.        *)
(* ConcSpec  : two threads, each calling encode and decode on its own      *)
(*             image, their pixel steps interleaved.                       *)
(* FormSpec  : process_encode_form, the handler of POST /api/encode, on    *)
(*             a multipart form.                                           *)
(* UtilSpec  : the functions of utils.rs and the header functions, each on *)
(*             one argument list.                                          *)
(***************************************************************************)
EXTENDS Integers, Naturals, Sequences, FiniteSets, TLC

VARIABLES
    width, height,   \* StegoImage dimensions (u32)
    cover,           \* the pixels of the cover image given to encode
    image,           \* the pixels of the image now, row-major
    pc,              \* "idle" | "encoding" | "decoding"
    calls,           \* the calls made so far, in order
    message,         \* the message argument of encode
    max_size,        \* encode's local max_message_size
    chunks,          \* encode_message's local chunks
    chunk_idx,       \* encode_message's local chunk_idx
    x, y,            \* loop variables of the running pixel scan
    encResult,       \* "none" | "Ok" | "MessageTooLarge" | "InvalidParameters"
    all_bits,        \* decode's local all_bits
    pixel_count,     \* decode's local pixel_count
    decResult,       \* "none" | "Ok" | "NoMessageFound" | "InvalidParameters"
    decoded,         \* the bytes decode returned
    raw,             \* the bytes extract_raw_data returned
    pin,             \* PixelSpec: <<r, g, b>> given to encode_pixel
    pmsg,            \* PixelSpec: the 3 message bits
    pout,            \* PixelSpec: <<r', g', b'>> returned by encode_pixel
    pdec,            \* PixelSpec: the bits decode_pixel returned
    pvn,             \* PixelSpec: the vector lookup_vn returned for pmsg
    pz,              \* PixelSpec: what Encoder::matrix_multiply returned for pmsg
    pzd,             \* PixelSpec: what Decoder::matrix_multiply returned for pmsg
    ppc,             \* PixelSpec: "in" | "encoded" | "decoded"
    pair_w, pair_h,  \* PairSpec: the dimensions of both images
    imageA, imageB,  \* PairSpec: the pixels of the two images
    outA, outB,      \* PairSpec: what decode returned for each, [err, val]
    pairpc,          \* PairSpec: "ready" | "a" | "both"
    running,         \* ConcSpec: the thread that takes the next step, 1 or 2
    other,           \* ConcSpec: the image and the locals of the other thread
    form,            \* FormSpec: the fields of the multipart payload, in order
    field_idx,       \* FormSpec: number of fields taken from the payload
    cover_image_path,      \* FormSpec: "None" | "Some"
    message_text,          \* FormSpec: the handler's local `message`, "None" | "Some"
    message_file_content,  \* FormSpec: "None" | "Some"
    response,        \* FormSpec: the HTTP response, NoResponse until the handler returns
    formpc,          \* FormSpec: "fields" | "load" | "done"
    uarg,            \* UtilSpec: the function called and its arguments
    ures,            \* UtilSpec: what the call returned
    upc              \* UtilSpec: "in" | "done"

mainVars == <<width, height, cover, image, pc, calls, message, max_size, chunks,
              chunk_idx, x, y, encResult, all_bits, pixel_count, decResult, decoded,
              raw>>

pixelVars == <<pin, pmsg, pout, pdec, pvn, pz, pzd, ppc>>

pairVars == <<pair_w, pair_h, imageA, imageB, outA, outB, pairpc>>

concVars == <<running, other>>

formVars == <<form, field_idx, cover_image_path, message_text, message_file_content,
              response, formpc>>

utilVars == <<uarg, ures, upc>>

vars == <<mainVars, pixelVars, pairVars, concVars, formVars, utilVars>>

----------------------------------------------------------------------------
(* Bounds of the model *)

MaxWidth == 11

MaxHeight == 3

MaxMsgLen == 2

MaxSetLsb == 1

(* Byte values the messages are made of *)
MsgBytes == {0, 178}

(* Row-major indices of the pixels set_lsb is tried on: pixel 2 carries the  *)
(* last two version bits and the top length bit, pixel 13 the lowest length *)
(* bit and two reserved bits                                                *)
TamperPixels == {2, 13}

(* Channel values of the pixels PixelSpec tries *)
PixelBytes == {0, 123, 126, 127, 135, 255}

----------------------------------------------------------------------------
(* Program constants *)

MESSAGE_FORMAT_VERSION == 1

EXPECTED_FORMAT_VERSION == 1

HEADER_SIZE == 8

----------------------------------------------------------------------------
(* Machine arithmetic *)

Pow2(n) == 2 ^ n

(* u32 and usize values are kept as two limbs, value = hi * 2^16 + lo with   *)
(* 0 <= lo < 2^16: a header can declare a length up to 2^32 - 1, and the     *)
(* decoder multiplies it by 8 in usize (64 bits).                            *)
W(n) == [hi |-> n \div 65536, lo |-> n % 65536]

WInt(a) == a.hi * 65536 + a.lo

WAdd(a, b) ==
    LET s == a.lo + b.lo
    IN  [hi |-> a.hi + b.hi + (s \div 65536), lo |-> s % 65536]

(* a - b for a >= b *)
WSub(a, b) ==
    IF a.lo >= b.lo
    THEN [hi |-> a.hi - b.hi, lo |-> a.lo - b.lo]
    ELSE [hi |-> a.hi - b.hi - 1, lo |-> a.lo + 65536 - b.lo]

WLt(a, b) == a.hi < b.hi \/ (a.hi = b.hi /\ a.lo < b.lo)

WLe(a, b) == a = b \/ WLt(a, b)

(* a * k and a / k for a small k *)
WMulSmall(a, k) ==
    LET p == a.lo * k
    IN  [hi |-> a.hi * k + (p \div 65536), lo |-> p % 65536]

WDivSmall(a, k) ==
    [hi |-> a.hi \div k, lo |-> ((a.hi % k) * 65536 + a.lo) \div k]

(* p * q for p, q < 2^16 *)
WMul16(p, q) == WAdd(WMulSmall(W(p * (q \div 256)), 256), W(p * (q % 256)))

(* a value reduced to 32 bits *)
WrapU32(a) == [hi |-> a.hi % 65536, lo |-> a.lo]

(* u32 * u32 in u32: the product modulo 2^32, as a release build computes it *)
MulU32(a, b) ==
    LET cross == WAdd(WMul16(a.hi, b.lo), WMul16(a.lo, b.hi))
    IN  WrapU32(WAdd([hi |-> cross.lo, lo |-> 0], WMul16(a.lo, b.lo)))

(* u32 * u32 does not fit 32 bits: a build with overflow checks panics *)
MulU32Overflows(a, b) ==
    LET cross == WAdd(WMul16(a.hi, b.lo), WMul16(a.lo, b.hi))
    IN  \/ a.hi * b.hi # 0
        \/ cross.hi # 0
        \/ cross.lo + WMul16(a.lo, b.lo).hi >= 65536

Xor(a, b) == (a + b) % 2

And(a, b) == a * b

(* setting the LSB by adding 1, which carries when it is set already *)
OrOne_add(byte) == (byte + 1) % 256

(* byte | 1 *)
OrOne(byte) == IF byte % 2 = 1 THEN byte ELSE byte + 1

(* byte & !1 *)
AndNotOne(byte) == byte - (byte % 2)

Min(a, b) == IF a < b THEN a ELSE b

Bit3 == {<<a, b, c>> : a \in {0, 1}, b \in {0, 1}, c \in {0, 1}}

----------------------------------------------------------------------------
(* bltm.rs *)

(* BLTM3x3::columns: C1, C2, C3 *)
columns == << <<0, 0, 1>>, <<0, 1, 1>>, <<1, 1, 1>> >>

(* BLTM3x3::bits_to_u8 *)
RECURSIVE bits_to_u8_from(_, _, _)
bits_to_u8_from(bits, i, result) ==
    IF i > Len(bits) THEN result
    ELSE bits_to_u8_from(bits, i + 1, ((result * 2) % 256) + bits[i])

bits_to_u8(bits) == bits_to_u8_from(bits, 1, 0)

(* lookup_vn with the entry of delta 6 repeating the entry of delta 7 *)
lookup_vn_dup(delta) ==
    LET delta_val == bits_to_u8(delta)
    IN  CASE delta_val = 0 -> <<0, 0, 0>>
          [] delta_val = 1 -> <<0, 0, 1>>
          [] delta_val = 2 -> <<0, 1, 1>>
          [] delta_val = 3 -> <<0, 1, 0>>
          [] delta_val = 4 -> <<1, 1, 0>>
          [] delta_val = 5 -> <<1, 1, 1>>
          [] delta_val = 6 -> <<1, 0, 0>>
          [] delta_val = 7 -> <<1, 0, 0>>

(* BLTM3x3::lookup_vn *)
lookup_vn(delta) ==
    LET delta_val == bits_to_u8(delta)
    IN  CASE delta_val = 0 -> <<0, 0, 0>>
          [] delta_val = 1 -> <<0, 0, 1>>
          [] delta_val = 2 -> <<0, 1, 1>>
          [] delta_val = 3 -> <<0, 1, 0>>
          [] delta_val = 4 -> <<1, 1, 0>>
          [] delta_val = 5 -> <<1, 1, 1>>
          [] delta_val = 6 -> <<1, 0, 1>>
          [] delta_val = 7 -> <<1, 0, 0>>

----------------------------------------------------------------------------
(* utils.rs *)

(* u8 operators &, | and !, bit by bit *)
BitOf(byte, i) == (byte \div Pow2(i)) % 2

ByteOf(bit_at) ==
    bit_at[0] + 2 * bit_at[1] + 4 * bit_at[2] + 8 * bit_at[3] + 16 * bit_at[4]
        + 32 * bit_at[5] + 64 * bit_at[6] + 128 * bit_at[7]

And8(a, b) == ByteOf([i \in 0..7 |-> BitOf(a, i) * BitOf(b, i)])

Or8(a, b) == ByteOf([i \in 0..7 |-> IF BitOf(a, i) + BitOf(b, i) > 0 THEN 1 ELSE 0])

Not8(a) == ByteOf([i \in 0..7 |-> 1 - BitOf(a, i)])

(* get_lsbs / set_lsbs, the mask of k ones: 0xFF for k = 8, (1u8 << k) - 1 below *)
lsb_mask(k) == IF k = 8 THEN 255 ELSE (Pow2(k) % 256) - 1

(* get_lsbs *)
get_lsbs(byte, k) ==
    IF k = 0 \/ k > 8
    THEN [err |-> "InvalidParameters", val |-> 0]
    ELSE [err |-> "none", val |-> And8(byte, lsb_mask(k))]

(* set_lsbs without `bits & mask` *)
set_lsbs_unmasked(byte, bits, k) ==
    IF k = 0 \/ k > 8
    THEN [err |-> "InvalidParameters", val |-> 0]
    ELSE LET mask == lsb_mask(k)
             cleared == And8(byte, Not8(mask))
         IN  [err |-> "none", val |-> Or8(cleared, bits)]

(* set_lsbs *)
set_lsbs(byte, bits, k) ==
    IF k = 0 \/ k > 8
    THEN [err |-> "InvalidParameters", val |-> 0]
    ELSE LET mask == lsb_mask(k)
             cleared == And8(byte, Not8(mask))
             new_bits == And8(bits, mask)
         IN  [err |-> "none", val |-> Or8(cleared, new_bits)]

(* the bits of a byte LSB first *)
byte_bits_lsb_first(byte) == [i \in 1..8 |-> (byte \div Pow2(i - 1)) % 2]

(* bytes_to_bits: each byte MSB first *)
byte_bits(byte) == [i \in 1..8 |-> (byte \div Pow2(7 - (i - 1))) % 2]

bytes_to_bits(bytes) ==
    [k \in 1..(8 * Len(bytes)) |-> byte_bits(bytes[((k - 1) \div 8) + 1])[((k - 1) % 8) + 1]]

(* bits_to_bytes without `byte <<= 8 - bit_count`: the last byte is padded  *)
(* at its front                                                             *)
RECURSIVE bits_to_bytes_loop_no_shift(_, _, _, _, _)
bits_to_bytes_loop_no_shift(bits, i, byte, bit_count, bytes) ==
    IF i > Len(bits)
    THEN IF bit_count > 0
         THEN Append(bytes, byte)
         ELSE bytes
    ELSE LET b1 == ((byte * 2) % 256) + bits[i]
         IN  IF bit_count + 1 = 8
             THEN bits_to_bytes_loop_no_shift(bits, i + 1, 0, 0, Append(bytes, b1))
             ELSE bits_to_bytes_loop_no_shift(bits, i + 1, b1, bit_count + 1, bytes)

(* bits_to_bytes: the loop over the bits, then the partial last byte *)
RECURSIVE bits_to_bytes_loop(_, _, _, _, _)
bits_to_bytes_loop(bits, i, byte, bit_count, bytes) ==
    IF i > Len(bits)
    THEN IF bit_count > 0
         THEN Append(bytes, (byte * Pow2(8 - bit_count)) % 256)
         ELSE bytes
    ELSE LET b1 == ((byte * 2) % 256) + bits[i]
         IN  IF bit_count + 1 = 8
             THEN bits_to_bytes_loop(bits, i + 1, 0, 0, Append(bytes, b1))
             ELSE bits_to_bytes_loop(bits, i + 1, b1, bit_count + 1, bytes)

bits_to_bytes(bits) == bits_to_bytes_loop(bits, 1, 0, 0, <<>>)

(* split_bits, chunk_size > 0: the while loop from position i (0-based) *)
RECURSIVE split_bits_loop(_, _, _, _)
split_bits_loop(bits, chunk_size, i, acc) ==
    IF i < Len(bits)
    THEN LET end == Min(i + chunk_size, Len(bits))
             chunk == [k \in 1..chunk_size |->
                          IF i + k <= end THEN bits[i + k] ELSE 0]
         IN  split_bits_loop(bits, chunk_size, i + chunk_size, Append(acc, chunk))
    ELSE acc

(* split_bits with the bits of every chunk in reverse order *)
split_bits_reversed(bits, chunk_size) ==
    IF chunk_size = 0
    THEN [err |-> "InvalidParameters", val |-> <<>>]
    ELSE LET v == split_bits_loop(bits, chunk_size, 0, <<>>)
         IN  [err |-> "none",
              val |-> [c \in 1..Len(v) |-> [k \in 1..chunk_size |-> v[c][chunk_size + 1 - k]]]]

(* split_bits *)
split_bits(bits, chunk_size) ==
    IF chunk_size = 0
    THEN [err |-> "InvalidParameters", val |-> <<>>]
    ELSE [err |-> "none", val |-> split_bits_loop(bits, chunk_size, 0, <<>>)]

(* Option<usize> *)
None == [some |-> FALSE, len |-> 0]
Some(n) == [some |-> TRUE, len |-> n]

(* join_bits: the concatenation of the chunks *)
RECURSIVE join_bits_extend(_, _, _)
join_bits_extend(chunk_seq, c, result) ==
    IF c > Len(chunk_seq) THEN result
    ELSE join_bits_extend(chunk_seq, c + 1, result \o chunk_seq[c])

(* join_bits that resizes to total_bits, padding a shorter result with 0 *)
join_bits_resize(chunk_seq, total_bits) ==
    LET result == join_bits_extend(chunk_seq, 1, <<>>)
    IN  IF total_bits.some
        THEN [k \in 1..total_bits.len |-> IF k <= Len(result) THEN result[k] ELSE 0]
        ELSE result

(* join_bits *)
join_bits(chunk_seq, total_bits) ==
    LET result == join_bits_extend(chunk_seq, 1, <<>>)
    IN  IF total_bits.some /\ Len(result) > total_bits.len
        THEN SubSeq(result, 1, total_bits.len)
        ELSE result

----------------------------------------------------------------------------
(* img.rs *)

(* StegoImage::get_pixel_rgb *)
get_pixel_rgb(img, w, h, px, py) ==
    IF px >= w \/ py >= h
    THEN [err |-> "InvalidParameters", val |-> <<0, 0, 0>>]
    ELSE [err |-> "none", val |-> img[py * w + px + 1]]

(* StegoImage::set_pixel_rgb *)
set_pixel_rgb(img, w, h, px, py, pixel) ==
    IF px >= w \/ py >= h
    THEN [err |-> "InvalidParameters", val |-> img]
    ELSE [err |-> "none", val |-> [img EXCEPT ![py * w + px + 1] = pixel]]

(* StegoImage::set_lsb *)
set_lsb(img, w, h, px, py, channel, bit) ==
    IF channel > 2
    THEN [err |-> "InvalidParameters", val |-> img]
    ELSE LET got == get_pixel_rgb(img, w, h, px, py)
         IN  IF got.err # "none"
             THEN [err |-> got.err, val |-> img]
             ELSE LET pixel == [got.val EXCEPT ![channel + 1] =
                                   IF bit = 1 THEN OrOne(@) ELSE AndNotOne(@)]
                  IN  set_pixel_rgb(img, w, h, px, py, pixel)

----------------------------------------------------------------------------
(* encoder.rs *)

(* matrix_multiply with the test i > j: the diagonal is left out *)
Encoder_matrix_multiply_strict(v) ==
    [i1 \in 1..3 |->
        LET i == i1 - 1
            term(j) == IF i > j THEN And(columns[(2 - j) + 1][i + 1], v[j + 1]) ELSE 0
        IN  Xor(Xor(term(0), term(1)), term(2))]

(* Encoder::matrix_multiply: rows i, columns j, entry (i,j) = columns[2-j][i] *)
Encoder_matrix_multiply(v) ==
    [i1 \in 1..3 |->
        LET i == i1 - 1
            term(j) == IF i >= j THEN And(columns[(2 - j) + 1][i + 1], v[j + 1]) ELSE 0
        IN  Xor(Xor(term(0), term(1)), term(2))]

(* encode_pixel that sets the LSB for a stego bit 1 and has no else branch *)
encode_pixel_set_only(r, g, b, message_bits) ==
    LET cover_vector == <<r % 2, g % 2, b % 2>>
        z == Encoder_matrix_multiply(cover_vector)
        delta == [i \in 1..Len(message_bits) |-> Xor(z[i], message_bits[i])]
        vn == lookup_vn(delta)
        stego_vector == [i \in 1..Len(cover_vector) |-> Xor(cover_vector[i], vn[i])]
        new_r == IF stego_vector[1] = 1 THEN OrOne(r) ELSE r
        new_g == IF stego_vector[2] = 1 THEN OrOne(g) ELSE g
        new_b == IF stego_vector[3] = 1 THEN OrOne(b) ELSE b
    IN  <<new_r, new_g, new_b>>

(* encode_pixel without the lookup table: the correction is delta itself *)
encode_pixel_no_lookup(r, g, b, message_bits) ==
    LET cover_vector == <<r % 2, g % 2, b % 2>>
        z == Encoder_matrix_multiply(cover_vector)
        delta == [i \in 1..Len(message_bits) |-> Xor(z[i], message_bits[i])]
        stego_vector == [i \in 1..Len(cover_vector) |-> Xor(cover_vector[i], delta[i])]
        new_r == IF stego_vector[1] = 1 THEN OrOne(r) ELSE AndNotOne(r)
        new_g == IF stego_vector[2] = 1 THEN OrOne(g) ELSE AndNotOne(g)
        new_b == IF stego_vector[3] = 1 THEN OrOne(b) ELSE AndNotOne(b)
    IN  <<new_r, new_g, new_b>>

(* Encoder::encode_pixel *)
encode_pixel(r, g, b, message_bits) ==
    LET cover_vector == <<r % 2, g % 2, b % 2>>
        z == Encoder_matrix_multiply(cover_vector)
        delta == [i \in 1..Len(message_bits) |-> Xor(z[i], message_bits[i])]
        vn == lookup_vn(delta)
        stego_vector == [i \in 1..Len(cover_vector) |-> Xor(cover_vector[i], vn[i])]
        new_r == IF stego_vector[1] = 1 THEN OrOne(r) ELSE AndNotOne(r)
        new_g == IF stego_vector[2] = 1 THEN OrOne(g) ELSE AndNotOne(g)
        new_b == IF stego_vector[3] = 1 THEN OrOne(b) ELSE AndNotOne(b)
    IN  <<new_r, new_g, new_b>>

(* image.width() * image.height() * 3, evaluated in u32 and then widened   *)
(* with `as usize`: when a product does not fit 32 bits, a build with       *)
(* overflow checks panics and a build without them keeps the low 32 bits    *)
capacity_bits(w, h, overflow_checks) ==
    LET total_pixels == MulU32(W(w), W(h))
    IN  IF overflow_checks
           /\ (MulU32Overflows(W(w), W(h)) \/ MulU32Overflows(total_pixels, W(3)))
        THEN [panic |-> TRUE, val |-> W(0)]
        ELSE [panic |-> FALSE, val |-> MulU32(total_pixels, W(3))]

(* max_message_size without the header subtracted *)
max_message_size_no_header(w, h) ==
    LET total_pixels == MulU32(W(w), W(h))
        total_bits == MulU32(total_pixels, W(3))
    IN  WDivSmall(total_bits, 8)

(* Encoder::max_message_size *)
max_message_size(w, h) ==
    LET total_pixels == MulU32(W(w), W(h))
        total_bits == MulU32(total_pixels, W(3))
        total_bytes == WDivSmall(total_bits, 8)
    IN  IF WLe(total_bytes, W(HEADER_SIZE)) THEN W(0) ELSE WSub(total_bytes, W(HEADER_SIZE))

(* create_header writing the length little endian *)
create_header_little_endian(message_length) ==
    << MESSAGE_FORMAT_VERSION,
       message_length.lo % 256,
       (message_length.lo \div Pow2(8)) % 256,
       message_length.hi % 256,
       (message_length.hi \div Pow2(8)) % 256,
       0, 0, 0 >>

(* Encoder::create_header *)
create_header(message_length) ==
    << MESSAGE_FORMAT_VERSION,
       (message_length.hi \div Pow2(8)) % 256,
       message_length.hi % 256,
       (message_length.lo \div Pow2(8)) % 256,
       message_length.lo % 256,
       0, 0, 0 >>

(* Encoder::encode, line 145: the byte-level check *)
encode_too_large(msg, w, h) == WLt(max_message_size(w, h), W(Len(msg)))

(* the bit-level check with >= for > *)
encode_message_too_large_ge(message_bits, w, h) ==
    LET max_bits == MulU32(MulU32(W(w), W(h)), W(3))
    IN  WLe(max_bits, W(Len(message_bits)))

(* the bit-level check comparing the byte count with the bit capacity *)
encode_message_too_large_bytes(message_bits, w, h) ==
    LET max_bits == MulU32(MulU32(W(w), W(h)), W(3))
    IN  WLt(max_bits, W(Len(message_bits) \div 8))

(* Encoder::encode_message, lines 197-198: the bit-level check *)
encode_message_too_large(message_bits, w, h) ==
    LET max_bits == MulU32(MulU32(W(w), W(h)), W(3))
    IN  WLt(max_bits, W(Len(message_bits)))

(* Encoder::encode, lines 150-155: header || message *)
full_message(msg) == create_header(WrapU32(W(Len(msg)))) \o msg

(* Encoder::encode_message, lines 209-231: the pixel loop from its n-th      *)
(* iteration (x = n mod w, y = n div w, chunk_idx = n)                      *)
RECURSIVE encode_message_loop(_, _, _, _, _)
encode_message_loop(img, w, h, chunk_seq, n) ==
    IF n >= w * h \/ n >= Len(chunk_seq)
    THEN [err |-> "Ok", val |-> img]
    ELSE LET got == get_pixel_rgb(img, w, h, n % w, n \div w)
             new == encode_pixel(got.val[1], got.val[2], got.val[3], chunk_seq[n + 1])
             put == set_pixel_rgb(img, w, h, n % w, n \div w, new)
         IN  IF got.err # "none" THEN [err |-> got.err, val |-> <<>>]
             ELSE IF put.err # "none" THEN [err |-> put.err, val |-> <<>>]
             ELSE encode_message_loop(put.val, w, h, chunk_seq, n + 1)

(* Encoder::encode_message as a function of the image and the frame *)
encode_message(img, w, h, frame) ==
    LET message_bits == bytes_to_bits(frame)
        split == split_bits(message_bits, 3)
    IN  IF encode_message_too_large(message_bits, w, h)
        THEN [err |-> "MessageTooLarge", val |-> <<>>]
        ELSE IF split.err # "none"
        THEN [err |-> split.err, val |-> <<>>]
        ELSE encode_message_loop(img, w, h, split.val, 0)

(* Encoder::encode as a function of the cover image and the message:        *)
(* [err, val], err "Ok" with the stego image or the error                   *)
encode(img, w, h, msg) ==
    IF encode_too_large(msg, w, h)
    THEN [err |-> "MessageTooLarge", val |-> <<>>]
    ELSE encode_message(img, w, h, full_message(msg))

----------------------------------------------------------------------------
(* decoder.rs *)

(* matrix_multiply reading column j instead of column 2-j *)
Decoder_matrix_multiply_cols(v) ==
    [i1 \in 1..3 |->
        LET i == i1 - 1
            term(j) == IF i >= j THEN And(columns[j + 1][i + 1], v[j + 1]) ELSE 0
        IN  Xor(Xor(term(0), term(1)), term(2))]

(* Decoder::matrix_multiply *)
Decoder_matrix_multiply(v) ==
    [i1 \in 1..3 |->
        LET i == i1 - 1
            term(j) == IF i >= j THEN And(columns[(2 - j) + 1][i + 1], v[j + 1]) ELSE 0
        IN  Xor(Xor(term(0), term(1)), term(2))]

(* Decoder::decode_pixel *)
decode_pixel(r, g, b) == Decoder_matrix_multiply(<<r % 2, g % 2, b % 2>>)

(* extract_header without the format version check *)
extract_header_any_version(bits) ==
    IF Len(bits) < HEADER_SIZE * 8
    THEN [err |-> "NoMessageFound", version |-> 0, length |-> W(0)]
    ELSE LET header_bytes == bits_to_bytes(SubSeq(bits, 1, HEADER_SIZE * 8))
         IN  [err |-> "none", version |-> header_bytes[1],
              length |-> [hi |-> header_bytes[2] * Pow2(8) + header_bytes[3],
                          lo |-> header_bytes[4] * Pow2(8) + header_bytes[5]]]

(* extract_header keeping only the low 16 bits of the length *)
extract_header_length_u16(bits) ==
    IF Len(bits) < HEADER_SIZE * 8
    THEN [err |-> "NoMessageFound", version |-> 0, length |-> W(0)]
    ELSE LET header_bytes == bits_to_bytes(SubSeq(bits, 1, HEADER_SIZE * 8))
             format_version == header_bytes[1]
         IN  IF format_version # EXPECTED_FORMAT_VERSION
             THEN [err |-> "InvalidParameters", version |-> format_version, length |-> W(0)]
             ELSE [err |-> "none", version |-> format_version,
                   length |-> [hi |-> 0,
                               lo |-> header_bytes[4] * Pow2(8) + header_bytes[5]]]

(* extract_header refusing a header whose reserved bytes are not zero *)
extract_header_reserved_zero(bits) ==
    IF Len(bits) < HEADER_SIZE * 8
    THEN [err |-> "NoMessageFound", version |-> 0, length |-> W(0)]
    ELSE LET header_bytes == bits_to_bytes(SubSeq(bits, 1, HEADER_SIZE * 8))
             format_version == header_bytes[1]
         IN  IF format_version # EXPECTED_FORMAT_VERSION
                \/ <<header_bytes[6], header_bytes[7], header_bytes[8]>> # <<0, 0, 0>>
             THEN [err |-> "InvalidParameters", version |-> format_version, length |-> W(0)]
             ELSE [err |-> "none", version |-> format_version,
                   length |-> [hi |-> header_bytes[2] * Pow2(8) + header_bytes[3],
                               lo |-> header_bytes[4] * Pow2(8) + header_bytes[5]]]

(* Decoder::extract_header *)
extract_header(bits) ==
    IF Len(bits) < HEADER_SIZE * 8
    THEN [err |-> "NoMessageFound", version |-> 0, length |-> W(0)]
    ELSE LET header_bytes == bits_to_bytes(SubSeq(bits, 1, HEADER_SIZE * 8))
             format_version == header_bytes[1]
         IN  IF format_version # EXPECTED_FORMAT_VERSION
             THEN [err |-> "InvalidParameters", version |-> format_version, length |-> W(0)]
             ELSE [err |-> "none", version |-> format_version,
                   length |-> [hi |-> header_bytes[2] * Pow2(8) + header_bytes[3],
                               lo |-> header_bytes[4] * Pow2(8) + header_bytes[5]]]

(* the header pixels rounded down *)
required_pixels_floor == (HEADER_SIZE * 8) \div 3

(* Decoder::decode, line 139 *)
required_pixels == (HEADER_SIZE * 8 + 2) \div 3

(* lines 157-159 with a ceiling division that adds 3 instead of 2 *)
total_pixels_needed_add3(message_length) ==
    LET message_bits == WMulSmall(message_length, 8)
        total_bits_needed == WAdd(W(HEADER_SIZE * 8), message_bits)
    IN  WDivSmall(WAdd(total_bits_needed, W(3)), 3)

(* Decoder::decode, lines 157-159 *)
total_pixels_needed(message_length) ==
    LET message_bits == WMulSmall(message_length, 8)
        total_bits_needed == WAdd(W(HEADER_SIZE * 8), message_bits)
    IN  WDivSmall(WAdd(total_bits_needed, W(2)), 3)

(* Decoder::decode, lines 141-150: all_bits after the first n iterations of *)
(* the pixel loop, the bits of pixel i (x = i mod w, y = i div w) at 3 i    *)
scan_bits(img, w, h, n) ==
    [k \in 1..(3 * n) |->
        LET i == (k - 1) \div 3
            got == get_pixel_rgb(img, w, h, i % w, i \div w)
        IN  decode_pixel(got.val[1], got.val[2], got.val[3])[((k - 1) % 3) + 1]]

(* Decoder::decode, lines 169-189, on the bits the scan accumulated *)
decode_finish(bits) ==
    LET hdr == extract_header(bits)
        message_bits == WMulSmall(hdr.length, 8)
        total_bits_needed == WAdd(W(HEADER_SIZE * 8), message_bits)
        message_start == HEADER_SIZE * 8
        message_end == message_start + WInt(message_bits)
    IN  IF hdr.err # "none"
        THEN [err |-> hdr.err, val |-> <<>>]
        ELSE IF WLt(W(Len(bits)), total_bits_needed)
        THEN [err |-> "NoMessageFound", val |-> <<>>]
        ELSE [err |-> "Ok", val |-> bits_to_bytes(SubSeq(bits, message_start + 1, message_end))]

(* Decoder::decode as a function of the image: [err, val], err "Ok" with    *)
(* the message bytes or the error.  The pixel loop can only leave early in  *)
(* its iteration required_pixels, on the header or on the declared length.  *)
decode(img, w, h) ==
    LET total_bits == MulU32(MulU32(W(w), W(h)), W(3))
        early == w * h >= required_pixels
        hdr == extract_header(scan_bits(img, w, h, required_pixels))
    IN  IF WLt(total_bits, W(HEADER_SIZE * 8))
        THEN [err |-> "NoMessageFound", val |-> <<>>]
        ELSE IF early /\ hdr.err # "none"
        THEN [err |-> hdr.err, val |-> <<>>]
        ELSE IF early /\ WLt(MulU32(W(w), W(h)), total_pixels_needed(hdr.length))
        THEN [err |-> "NoMessageFound", val |-> <<>>]
        ELSE decode_finish(scan_bits(img, w, h, w * h))

(* Decoder::decode without lines 152-165: the scan of all pixels followed   *)
(* by lines 169-189                                                         *)
decode_final_only(img, w, h) ==
    decode_finish(scan_bits(img, w, h, w * h))

(* raw_decoder.rs extract_raw_data, lines 13-25: the bits of all pixels, in *)
(* row-major order, the bits of pixel i (from 0) at 3 i                     *)
extract_raw_bits(img) ==
    [k \in 1..(3 * Len(img)) |->
        LET pixel == img[((k - 1) \div 3) + 1]
        IN  decode_pixel(pixel[1], pixel[2], pixel[3])[((k - 1) % 3) + 1]]

(* raw_decoder.rs bits_to_bytes, lines 43-47: *byte |= 1 << (7 - (j % 8))  *)
RECURSIVE raw_fill_byte(_, _, _, _)
raw_fill_byte(bits, j, end_bit, byte) ==
    IF j >= end_bit THEN byte
    ELSE LET p == Pow2(7 - (j % 8))
             set == IF (byte \div p) % 2 = 1 THEN byte ELSE byte + p
         IN  raw_fill_byte(bits, j + 1, end_bit, IF bits[j + 1] = 1 THEN set ELSE byte)

(* raw_decoder.rs bits_to_bytes *)
raw_bits_to_bytes(bits) ==
    LET byte_count == (Len(bits) + 7) \div 8
    IN  [i1 \in 1..byte_count |->
            LET start_bit == (i1 - 1) * 8
                end_bit == Min(start_bit + 8, Len(bits))
            IN  raw_fill_byte(bits, start_bit, end_bit, 0)]

(* raw_decoder.rs extract_raw_data *)
extract_raw_data(img) == raw_bits_to_bytes(extract_raw_bits(img))

----------------------------------------------------------------------------
(* The images and messages the model tries *)

(* Pixel i (0-based, row-major) of a cover image:                          *)
(*  "blank"  create_rgb_image: every channel 0                             *)
(*  "sample" every pixel (123, 127, 135), all LSBs 1                       *)
(*  "mixed"  channels and LSBs varying with the position                   *)
CoverPixel(kind, i) ==
    CASE kind = "blank"  -> <<0, 0, 0>>
      [] kind = "sample" -> <<123, 127, 135>>
      [] kind = "mixed"  -> <<(7 * i + 3) % 256, (13 * i) % 256, (250 - 5 * i) % 256>>

CoverKinds == {"blank", "sample", "mixed"}

CoverImage(kind, w, h) == [i \in 1..(w * h) |-> CoverPixel(kind, i - 1)]

RECURSIVE SeqsUpTo(_, _)
SeqsUpTo(S, n) ==
    IF n = 0 THEN {<<>>}
    ELSE LET shorter == SeqsUpTo(S, n - 1)
         IN  shorter \cup {Append(q, e) : q \in {q \in shorter : Len(q) = n - 1}, e \in S}

Messages == SeqsUpTo(MsgBytes, MaxMsgLen)

Count(seq, e) == Cardinality({i \in 1..Len(seq) : seq[i] = e})

----------------------------------------------------------------------------
(* Spec: the life of one image *)

PixelIdle ==
    /\ pin = <<0, 0, 0>>
    /\ pmsg = <<0, 0, 0>>
    /\ pout = <<0, 0, 0>>
    /\ pdec = <<0, 0, 0>>
    /\ pvn = <<0, 0, 0>>
    /\ pz = <<0, 0, 0>>
    /\ pzd = <<0, 0, 0>>
    /\ ppc = "off"

NoOutcome == [err |-> "none", val |-> <<>>]

PairIdle ==
    /\ pair_w = 1
    /\ pair_h = 1
    /\ imageA = << <<0, 0, 0>> >>
    /\ imageB = << <<0, 0, 0>> >>
    /\ outA = NoOutcome
    /\ outB = NoOutcome
    /\ pairpc = "off"

ConcIdle ==
    /\ running = 0
    /\ other = <<>>

UtilIdle ==
    /\ uarg = [fn |-> "none"]
    /\ ures = <<>>
    /\ upc = "off"

NoResponse == [status |-> 0, error_code |-> "", message |-> ""]

FormIdle ==
    /\ form = <<>>
    /\ field_idx = 0
    /\ cover_image_path = "None"
    /\ message_text = "None"
    /\ message_file_content = "None"
    /\ response = NoResponse
    /\ formpc = "done"

Init ==
    /\ width \in 1..MaxWidth
    /\ height \in 1..MaxHeight
    /\ \E kind \in CoverKinds : cover = CoverImage(kind, width, height)
    /\ image = cover
    /\ pc = "idle"
    /\ calls = <<>>
    /\ message = <<>>
    /\ max_size = W(0)
    /\ chunks = <<>>
    /\ chunk_idx = 0
    /\ x = 0
    /\ y = 0
    /\ encResult = "none"
    /\ all_bits = <<>>
    /\ pixel_count = 0
    /\ decResult = "none"
    /\ decoded = <<>>
    /\ raw = <<>>
    /\ PixelIdle
    /\ PairIdle
    /\ ConcIdle
    /\ FormIdle
    /\ UtilIdle

(* the next (x, y) of `for y in 0..height { for x in 0..width {` *)
(* an inner loop that does not end at the width *)
NextX_past_width == x + 1

NextX == IF x + 1 >= width THEN 0 ELSE x + 1

NextY == IF x + 1 >= width THEN y + 1 ELSE y

(* encode entering the pixel loop although a capacity check failed *)
EncodeCall_no_return(m) ==
    /\ pc = "idle"
    /\ calls = <<>>
    /\ calls' = Append(calls, "encode")
    /\ message' = m
    /\ max_size' = max_message_size(width, height)
    /\ LET split == split_bits(bytes_to_bits(full_message(m)), 3)
       IN  IF split.err # "none"
           THEN /\ encResult' = split.err
                /\ UNCHANGED <<pc, chunks>>
           ELSE /\ encResult' = "none"
                /\ pc' = "encoding"
                /\ chunks' = split.val
    /\ cover' = image
    /\ chunk_idx' = 0
    /\ x' = 0
    /\ y' = 0
    /\ UNCHANGED <<raw, width, height, image, all_bits, pixel_count, decResult, decoded>>
    /\ UNCHANGED <<pixelVars, pairVars, concVars, formVars, utilVars>>

(* encode embedding the first chunk before its capacity checks *)
EncodeCall_write_first(m) ==
    /\ pc = "idle"
    /\ calls = <<>>
    /\ calls' = Append(calls, "encode")
    /\ message' = m
    /\ max_size' = max_message_size(width, height)
    /\ LET message_bits == bytes_to_bits(full_message(m))
           split == split_bits(message_bits, 3)
       IN  /\ image' = [image EXCEPT ![1] =
                            encode_pixel(image[1][1], image[1][2], image[1][3], split.val[1])]
           /\ IF encode_too_large(m, width, height)
              THEN /\ encResult' = "MessageTooLarge"
                   /\ UNCHANGED <<pc, chunks>>
              ELSE IF encode_message_too_large(message_bits, width, height)
              THEN /\ encResult' = "MessageTooLarge"
                   /\ UNCHANGED <<pc, chunks>>
              ELSE IF split.err # "none"
              THEN /\ encResult' = split.err
                   /\ UNCHANGED <<pc, chunks>>
              ELSE /\ encResult' = "none"
                   /\ pc' = "encoding"
                   /\ chunks' = split.val
    /\ cover' = image
    /\ chunk_idx' = 0
    /\ x' = 0
    /\ y' = 0
    /\ UNCHANGED <<raw, width, height, all_bits, pixel_count, decResult, decoded>>
    /\ UNCHANGED <<pixelVars, pairVars, concVars, formVars, utilVars>>

(* Encoder::encode up to the pixel loop of encode_message *)
EncodeCall(m) ==
    /\ pc = "idle"
    /\ calls = <<>>
    /\ calls' = Append(calls, "encode")
    /\ message' = m
    /\ max_size' = max_message_size(width, height)
    /\ LET message_bits == bytes_to_bits(full_message(m))
           split == split_bits(message_bits, 3)
       IN  IF encode_too_large(m, width, height)
           THEN /\ encResult' = "MessageTooLarge"
                /\ UNCHANGED <<pc, chunks>>
           ELSE IF encode_message_too_large(message_bits, width, height)
           THEN /\ encResult' = "MessageTooLarge"
                /\ UNCHANGED <<pc, chunks>>
           ELSE IF split.err # "none"
           THEN /\ encResult' = split.err
                /\ UNCHANGED <<pc, chunks>>
           ELSE /\ encResult' = "none"
                /\ pc' = "encoding"
                /\ chunks' = split.val
    /\ cover' = image
    /\ chunk_idx' = 0
    /\ x' = 0
    /\ y' = 0
    /\ UNCHANGED <<raw, width, height, image, all_bits, pixel_count, decResult, decoded>>
    /\ UNCHANGED <<pixelVars, pairVars, concVars, formVars, utilVars>>

(* one iteration of the pixel loop of Encoder::encode_message *)
EncodeStep ==
    /\ pc = "encoding"
    /\ y < height
    /\ IF chunk_idx >= Len(chunks)
       THEN /\ encResult' = "Ok"
            /\ pc' = "idle"
            /\ UNCHANGED <<image, chunk_idx, x, y>>
       ELSE \E got \in {get_pixel_rgb(image, width, height, x, y)} :
               IF got.err # "none"
               THEN /\ encResult' = got.err
                    /\ pc' = "idle"
                    /\ UNCHANGED <<image, chunk_idx, x, y>>
               ELSE \E new \in {encode_pixel(got.val[1], got.val[2], got.val[3],
                                              chunks[chunk_idx + 1])} :
                    \E put \in {set_pixel_rgb(image, width, height, x, y, new)} :
                       IF put.err # "none"
                       THEN /\ encResult' = put.err
                            /\ pc' = "idle"
                            /\ UNCHANGED <<image, chunk_idx, x, y>>
                       ELSE /\ image' = put.val
                            /\ chunk_idx' = chunk_idx + 1
                            /\ x' = NextX
                            /\ y' = NextY
                            /\ UNCHANGED <<encResult, pc>>
    /\ UNCHANGED <<raw, width, height, cover, calls, message, max_size, chunks,
                   all_bits, pixel_count, decResult, decoded>>
    /\ UNCHANGED <<pixelVars, pairVars, concVars, formVars, utilVars>>

(* Encoder::encode_message, line 231: the loops ran out *)
EncodeLoopEnd ==
    /\ pc = "encoding"
    /\ y >= height
    /\ encResult' = "Ok"
    /\ pc' = "idle"
    /\ UNCHANGED <<raw, width, height, cover, image, calls, message, max_size, chunks,
                   chunk_idx, x, y, all_bits, pixel_count, decResult, decoded>>
    /\ UNCHANGED <<pixelVars, pairVars, concVars, formVars, utilVars>>

(* decode comparing the bit capacity with the header size in bytes *)
DecodeCall_header_bytes ==
    /\ pc = "idle"
    /\ Count(calls, "decode") = 0
    /\ Count(calls, "extract_raw_data") = 0
    /\ calls' = Append(calls, "decode")
    /\ LET total_bits == MulU32(MulU32(W(width), W(height)), W(3))
       IN  IF WLt(total_bits, W(HEADER_SIZE))
           THEN /\ decResult' = "NoMessageFound"
                /\ UNCHANGED pc
           ELSE /\ decResult' = "none"
                /\ pc' = "decoding"
    /\ all_bits' = <<>>
    /\ pixel_count' = 0
    /\ decoded' = <<>>
    /\ x' = 0
    /\ y' = 0
    /\ UNCHANGED <<raw, width, height, cover, image, message, max_size, chunks, chunk_idx, encResult>>
    /\ UNCHANGED <<pixelVars, pairVars, concVars, formVars, utilVars>>

(* Decoder::decode up to the pixel loop *)
DecodeCall ==
    /\ pc = "idle"
    /\ Count(calls, "decode") = 0
    /\ Count(calls, "extract_raw_data") = 0
    /\ calls' = Append(calls, "decode")
    /\ LET total_bits == MulU32(MulU32(W(width), W(height)), W(3))
       IN  IF WLt(total_bits, W(HEADER_SIZE * 8))
           THEN /\ decResult' = "NoMessageFound"
                /\ UNCHANGED pc
           ELSE /\ decResult' = "none"
                /\ pc' = "decoding"
    /\ all_bits' = <<>>
    /\ pixel_count' = 0
    /\ decoded' = <<>>
    /\ x' = 0
    /\ y' = 0
    /\ UNCHANGED <<raw, width, height, cover, image, message, max_size, chunks, chunk_idx, encResult>>
    /\ UNCHANGED <<pixelVars, pairVars, concVars, formVars, utilVars>>

(* the pixel loop without lines 152-165: the header is not looked at before *)
(* the scan has ended                                                       *)
DecodeStep_no_early_check ==
    /\ pc = "decoding"
    /\ y < height
    /\ LET got == get_pixel_rgb(image, width, height, x, y)
           pixel_bits == decode_pixel(got.val[1], got.val[2], got.val[3])
       IN  IF got.err # "none"
           THEN /\ decResult' = got.err
                /\ pc' = "idle"
                /\ UNCHANGED <<all_bits, pixel_count, x, y>>
           ELSE /\ all_bits' = all_bits \o pixel_bits
                /\ pixel_count' = pixel_count + 1
                /\ x' = NextX
                /\ y' = NextY
                /\ UNCHANGED <<decResult, pc>>
    /\ UNCHANGED <<raw, width, height, cover, image, calls, message, max_size, chunks,
                   chunk_idx, encResult, decoded>>
    /\ UNCHANGED <<pixelVars, pairVars, concVars, formVars, utilVars>>

(* a pixel loop that, once the header has passed the early check, starts    *)
(* the scan again at the first pixel                                        *)
DecodeStep_second_pass ==
    /\ pc = "decoding"
    /\ y < height
    /\ LET got == get_pixel_rgb(image, width, height, x, y)
           pixel_bits == decode_pixel(got.val[1], got.val[2], got.val[3])
           bits1 == all_bits \o pixel_bits
           hdr == extract_header(bits1)
       IN  IF got.err # "none"
           THEN /\ decResult' = got.err
                /\ pc' = "idle"
                /\ UNCHANGED <<all_bits, pixel_count, x, y>>
           ELSE /\ pixel_count' = pixel_count + 1
                /\ IF pixel_count + 1 = required_pixels
                   THEN /\ all_bits' = <<>>
                        /\ x' = 0
                        /\ y' = 0
                        /\ IF hdr.err # "none"
                           THEN /\ decResult' = hdr.err
                                /\ pc' = "idle"
                           ELSE IF WLt(MulU32(W(width), W(height)), total_pixels_needed(hdr.length))
                           THEN /\ decResult' = "NoMessageFound"
                                /\ pc' = "idle"
                           ELSE UNCHANGED <<decResult, pc>>
                   ELSE /\ all_bits' = bits1
                        /\ x' = NextX
                        /\ y' = NextY
                        /\ UNCHANGED <<decResult, pc>>
    /\ UNCHANGED <<raw, width, height, cover, image, calls, message, max_size, chunks,
                   chunk_idx, encResult, decoded>>
    /\ UNCHANGED <<pixelVars, pairVars, concVars, formVars, utilVars>>

(* a pixel loop that tries again from the first pixel when the header is   *)
(* not acceptable, instead of returning the error                           *)
DecodeStep_retry ==
    /\ pc = "decoding"
    /\ y < height
    /\ \E got \in {get_pixel_rgb(image, width, height, x, y)} :
          IF got.err # "none"
          THEN /\ decResult' = got.err
               /\ pc' = "idle"
               /\ UNCHANGED <<all_bits, pixel_count, x, y>>
          ELSE \E bits1 \in {all_bits \o decode_pixel(got.val[1], got.val[2], got.val[3])} :
               \E hdr \in {extract_header(bits1)} :
                  IF pixel_count + 1 = required_pixels
                     /\ (hdr.err # "none"
                         \/ WLt(MulU32(W(width), W(height)), total_pixels_needed(hdr.length)))
                  THEN /\ all_bits' = <<>>
                       /\ pixel_count' = 0
                       /\ x' = 0
                       /\ y' = 0
                       /\ UNCHANGED <<decResult, pc>>
                  ELSE /\ all_bits' = bits1
                       /\ pixel_count' = pixel_count + 1
                       /\ x' = NextX
                       /\ y' = NextY
                       /\ UNCHANGED <<decResult, pc>>
    /\ UNCHANGED <<raw, width, height, cover, image, calls, message, max_size, chunks,
                   chunk_idx, encResult, decoded>>
    /\ UNCHANGED <<pixelVars, pairVars, concVars, formVars, utilVars>>

(* one iteration of the pixel loop of Decoder::decode *)
DecodeStep ==
    /\ pc = "decoding"
    /\ y < height
    /\ \E got \in {get_pixel_rgb(image, width, height, x, y)} :
          IF got.err # "none"
          THEN /\ decResult' = got.err
               /\ pc' = "idle"
               /\ UNCHANGED <<all_bits, pixel_count, x, y>>
          ELSE \E bits1 \in {all_bits \o decode_pixel(got.val[1], got.val[2], got.val[3])} :
                  /\ all_bits' = bits1
                  /\ pixel_count' = pixel_count + 1
                  /\ x' = NextX
                  /\ y' = NextY
                  /\ IF pixel_count + 1 = required_pixels
                     THEN \E hdr \in {extract_header(bits1)} :
                             IF hdr.err # "none"
                             THEN /\ decResult' = hdr.err
                                  /\ pc' = "idle"
                             ELSE IF WLt(MulU32(W(width), W(height)), total_pixels_needed(hdr.length))
                             THEN /\ decResult' = "NoMessageFound"
                                  /\ pc' = "idle"
                             ELSE UNCHANGED <<decResult, pc>>
                     ELSE UNCHANGED <<decResult, pc>>
    /\ UNCHANGED <<raw, width, height, cover, image, calls, message, max_size, chunks,
                   chunk_idx, encResult, decoded>>
    /\ UNCHANGED <<pixelVars, pairVars, concVars, formVars, utilVars>>

(* Decoder::decode, lines 169-189: after the scan *)
DecodeFinish ==
    /\ pc = "decoding"
    /\ y >= height
    /\ \E hdr \in {extract_header(all_bits)} :
          LET message_bits == WMulSmall(hdr.length, 8)
              total_bits_needed == WAdd(W(HEADER_SIZE * 8), message_bits)
              message_start == HEADER_SIZE * 8
              message_end == message_start + WInt(message_bits)
          IN  IF hdr.err # "none"
              THEN /\ decResult' = hdr.err
                   /\ decoded' = <<>>
              ELSE IF WLt(W(Len(all_bits)), total_bits_needed)
              THEN /\ decResult' = "NoMessageFound"
                   /\ decoded' = <<>>
              ELSE /\ decResult' = "Ok"
                   /\ decoded' = bits_to_bytes(SubSeq(all_bits, message_start + 1, message_end))
    /\ pc' = "idle"
    /\ UNCHANGED <<raw, width, height, cover, image, calls, message, max_size, chunks,
                   chunk_idx, x, y, encResult, all_bits, pixel_count>>
    /\ UNCHANGED <<pixelVars, pairVars, concVars, formVars, utilVars>>

(* StegoImage::get_lsb *)
get_lsb(img, w, h, px, py, channel) ==
    IF channel > 2
    THEN [err |-> "InvalidParameters", val |-> 0]
    ELSE LET got == get_pixel_rgb(img, w, h, px, py)
         IN  IF got.err # "none"
             THEN [err |-> got.err, val |-> 0]
             ELSE [err |-> "none", val |-> got.val[channel + 1] % 2]

(* StegoImage::set_lsb called by the owner of the image encode returned,      *)
(* before it is decoded, with a bit the channel does not hold yet             *)
SetLsb(px, py, channel, bit) ==
    /\ pc = "idle"
    /\ Count(calls, "encode") = 1
    /\ encResult = "Ok"
    /\ get_lsb(image, width, height, px, py, channel).val # bit
    /\ Count(calls, "set_lsb") < MaxSetLsb
    /\ Count(calls, "decode") = 0
    /\ Count(calls, "extract_raw_data") = 0
    /\ calls' = Append(calls, "set_lsb")
    /\ image' = set_lsb(image, width, height, px, py, channel, bit).val
    /\ UNCHANGED <<raw, width, height, cover, pc, message, max_size, chunks, chunk_idx, x, y,
                   encResult, all_bits, pixel_count, decResult, decoded>>
    /\ UNCHANGED <<pixelVars, pairVars, concVars, formVars, utilVars>>

(* extract_raw_data on the image as encode left it, the last call of its owner *)
ExtractRawCall ==
    /\ pc = "idle"
    /\ calls = <<"encode">>
    /\ calls' = Append(calls, "extract_raw_data")
    /\ raw' = extract_raw_data(image)
    /\ UNCHANGED <<width, height, cover, image, pc, message, max_size, chunks, chunk_idx,
                   x, y, encResult, all_bits, pixel_count, decResult, decoded>>
    /\ UNCHANGED <<pixelVars, pairVars, concVars, formVars, utilVars>>

Next ==
    \/ \E m \in Messages : EncodeCall(m)
    \/ EncodeStep
    \/ EncodeLoopEnd
    \/ DecodeCall
    \/ DecodeStep
    \/ DecodeFinish
    \/ ExtractRawCall
    \/ \E i \in {t \in TamperPixels : t < width * height}, channel \in 0..2, bit \in {0, 1} :
          SetLsb(i % width, i \div width, channel, bit)

Spec == Init /\ [][Next]_vars

(* the calls of encode and decode alone. Both are sequential loops of the   *)
(* calling thread: once a call has entered its loop, the next iteration, or *)
(* the code after the loop, is executed                                     *)
FairNext ==
    \/ \E m \in Messages : EncodeCall(m)
    \/ EncodeStep
    \/ EncodeLoopEnd
    \/ DecodeCall
    \/ DecodeStep
    \/ DecodeFinish

(* the next step of the call that is running: an iteration of its pixel    *)
(* loop, or the code after the loop (at most one of the four is enabled)    *)
LoopStep == EncodeStep \/ EncodeLoopEnd \/ DecodeStep \/ DecodeFinish

FairSpec == Init /\ [][FairNext]_vars /\ WF_vars(LoopStep)

----------------------------------------------------------------------------
(* PixelSpec: encode_pixel, decode_pixel and lookup_vn on one pixel *)

MainIdle ==
    /\ width = 1
    /\ height = 1
    /\ cover = << <<0, 0, 0>> >>
    /\ image = << <<0, 0, 0>> >>
    /\ pc = "off"
    /\ calls = <<>>
    /\ message = <<>>
    /\ max_size = W(0)
    /\ chunks = <<>>
    /\ chunk_idx = 0
    /\ x = 0
    /\ y = 0
    /\ encResult = "none"
    /\ all_bits = <<>>
    /\ pixel_count = 0
    /\ decResult = "none"
    /\ decoded = <<>>
    /\ raw = <<>>

PixelInit ==
    /\ MainIdle
    /\ PairIdle
    /\ ConcIdle
    /\ FormIdle
    /\ UtilIdle
    /\ pin \in {<<r, g, b>> : r \in PixelBytes, g \in PixelBytes, b \in PixelBytes}
    /\ pmsg \in Bit3
    /\ pout = <<0, 0, 0>>
    /\ pdec = <<0, 0, 0>>
    /\ pvn = <<0, 0, 0>>
    /\ pz = <<0, 0, 0>>
    /\ pzd = <<0, 0, 0>>
    /\ ppc = "in"

(* Encoder::encode_pixel(r, g, b, message_bits) *)
PixelEncode ==
    /\ ppc = "in"
    /\ pout' = encode_pixel(pin[1], pin[2], pin[3], pmsg)
    /\ ppc' = "encoded"
    /\ UNCHANGED <<pin, pmsg, pdec, pvn, pz, pzd>>
    /\ UNCHANGED <<mainVars, pairVars, concVars, formVars, utilVars>>

(* Decoder::decode_pixel on the pixel encode_pixel returned *)
PixelDecode ==
    /\ ppc = "encoded"
    /\ pdec' = decode_pixel(pout[1], pout[2], pout[3])
    /\ ppc' = "decoded"
    /\ UNCHANGED <<pin, pmsg, pout, pvn, pz, pzd>>
    /\ UNCHANGED <<mainVars, pairVars, concVars, formVars, utilVars>>

(* BLTM3x3::lookup_vn(delta) with delta = pmsg *)
PixelLookup ==
    /\ ppc = "in"
    /\ pvn' = lookup_vn(pmsg)
    /\ ppc' = "looked"
    /\ UNCHANGED <<pin, pmsg, pout, pdec, pz, pzd>>
    /\ UNCHANGED <<mainVars, pairVars, concVars, formVars, utilVars>>

(* Encoder::matrix_multiply(v) and Decoder::matrix_multiply(v) with v = pmsg *)
PixelMultiply ==
    /\ ppc = "in"
    /\ pz' = Encoder_matrix_multiply(pmsg)
    /\ pzd' = Decoder_matrix_multiply(pmsg)
    /\ ppc' = "multiplied"
    /\ UNCHANGED <<pin, pmsg, pout, pdec, pvn>>
    /\ UNCHANGED <<mainVars, pairVars, concVars, formVars, utilVars>>

PixelNext == PixelEncode \/ PixelDecode \/ PixelLookup \/ PixelMultiply

PixelSpec == PixelInit /\ [][PixelNext]_vars

----------------------------------------------------------------------------
(* PairSpec: decode as a function of the image, applied to two images *)

(* the pixel with the LSBs that decode_pixel maps to the stream bits m *)
WithStreamBits(pixel, m) ==
    LET v == <<m[1], Xor(m[1], m[2]), Xor(m[2], m[3])>>
    IN  [c \in 1..3 |-> pixel[c] - (pixel[c] % 2) + v[c]]

(* the image whose bit stream differs from that of img in the bits K (from 0) *)
FlipStreamBits(img, K) ==
    [i \in 1..Len(img) |->
        LET m == decode_pixel(img[i][1], img[i][2], img[i][3])
        IN  WithStreamBits(img[i],
                [c \in 1..3 |-> IF (3 * (i - 1) + (c - 1)) \in K THEN 1 - m[c] ELSE m[c]])]

(* the stream bits of the reserved header bytes 5..7 *)
ReservedBits == 40..63

(* Dimensions of the images PairSpec tries: 21 pixels (63 bits), 22 pixels, *)
(* 24 pixels (exactly the frame of 1 byte) and more                         *)
PairDims == {<<7, 3>>, <<11, 2>>, <<8, 3>>, <<9, 3>>, <<11, 3>>}

(* Stream bits flipped in an image before it is decoded: none, the lowest   *)
(* version bit (7), the top length bit (8), the lowest length bit (39)      *)
PairTampers == {{}, {7}, {8}, {39}}

(* Stream bits in which the second image differs from the first: nothing,   *)
(* single reserved bits, all reserved bits, and a reserved bit together     *)
(* with the lowest length bit                                               *)
PairVariants == {{}, {40}, {51}, {63}, ReservedBits, {39, 40}}

(* the images decode is given: covers, the stego images encode makes of     *)
(* them, and these with header bits flipped                                 *)
PairImages(w, h) ==
    LET covers == {CoverImage(kind, w, h) : kind \in CoverKinds}
        stegos == {encode(c, w, h, m).val : c \in covers,
                       m \in {m \in Messages : encode(CoverImage("blank", w, h), w, h, m).err = "Ok"}}
    IN  {FlipStreamBits(b, T) : b \in covers \cup stegos, T \in PairTampers}

PairInit ==
    /\ MainIdle
    /\ PixelIdle
    /\ ConcIdle
    /\ FormIdle
    /\ UtilIdle
    /\ \E d \in PairDims :
          /\ pair_w = d[1]
          /\ pair_h = d[2]
          /\ imageA \in PairImages(d[1], d[2])
    /\ \E K \in PairVariants : imageB = FlipStreamBits(imageA, K)
    /\ outA = NoOutcome
    /\ outB = NoOutcome
    /\ pairpc = "ready"

(* Decoder::decode(imageA) *)
PairDecodeA ==
    /\ pairpc = "ready"
    /\ outA' = decode(imageA, pair_w, pair_h)
    /\ pairpc' = "a"
    /\ UNCHANGED <<pair_w, pair_h, imageA, imageB, outB>>
    /\ UNCHANGED <<mainVars, pixelVars, concVars, formVars, utilVars>>

(* Decoder::decode(imageB) *)
PairDecodeB ==
    /\ pairpc = "a"
    /\ outB' = decode(imageB, pair_w, pair_h)
    /\ pairpc' = "both"
    /\ UNCHANGED <<pair_w, pair_h, imageA, imageB, outA>>
    /\ UNCHANGED <<mainVars, pixelVars, concVars, formVars, utilVars>>

PairNext == PairDecodeA \/ PairDecodeB

PairSpec == PairInit /\ [][PairNext]_vars

----------------------------------------------------------------------------
(* ConcSpec: two threads, each with its own StegoImage and its own Encoder  *)
(* and Decoder.  The variables of Spec hold the image and the locals of the *)
(* running thread, `other` holds those of the thread that waits; a thread   *)
(* can be preempted between any two steps.  BLTM3x3 is a unit struct: the   *)
(* threads share no data.                                                   *)

(* Images the threads start with: a cover of 24 pixels, which holds a       *)
(* 1-byte message exactly, and the stego image of <<0>> on 24 pixels        *)
ConcImages ==
    { [w |-> 8, h |-> 3, img |-> CoverImage("sample", 8, 3)],
      [w |-> 8, h |-> 3, img |-> encode(CoverImage("mixed", 8, 3), 8, 3, <<0>>).val] }

(* Messages the threads encode: one that fits and one that is too large *)
ConcMessages == {<<178>>, <<0, 178>>}

(* a thread that has called nothing yet *)
ThreadStart(c) ==
    [width |-> c.w, height |-> c.h, cover |-> c.img, image |-> c.img, pc |-> "idle",
     calls |-> <<>>, message |-> <<>>, max_size |-> W(0), chunks |-> <<>>, chunk_idx |-> 0,
     x |-> 0, y |-> 0, encResult |-> "none", all_bits |-> <<>>, pixel_count |-> 0,
     decResult |-> "none", decoded |-> <<>>, raw |-> <<>>]

(* the image and the locals of the running thread *)
ThisThread ==
    [width |-> width, height |-> height, cover |-> cover, image |-> image, pc |-> pc,
     calls |-> calls, message |-> message, max_size |-> max_size, chunks |-> chunks,
     chunk_idx |-> chunk_idx, x |-> x, y |-> y, encResult |-> encResult,
     all_bits |-> all_bits, pixel_count |-> pixel_count, decResult |-> decResult,
     decoded |-> decoded, raw |-> raw]

ConcInit ==
    /\ PixelIdle
    /\ PairIdle
    /\ FormIdle
    /\ UtilIdle
    /\ running = 1
    /\ \E c \in ConcImages :
          /\ width = c.w
          /\ height = c.h
          /\ cover = c.img
          /\ image = c.img
    /\ pc = "idle"
    /\ calls = <<>>
    /\ message = <<>>
    /\ max_size = W(0)
    /\ chunks = <<>>
    /\ chunk_idx = 0
    /\ x = 0
    /\ y = 0
    /\ encResult = "none"
    /\ all_bits = <<>>
    /\ pixel_count = 0
    /\ decResult = "none"
    /\ decoded = <<>>
    /\ raw = <<>>
    /\ \E c \in ConcImages : other = ThreadStart(c)

(* a preemption that leaves the image of the preempted thread to the other *)
ConcSwitch_shared_image ==
    /\ running' = 3 - running
    /\ other' = ThisThread
    /\ width' = other.width
    /\ height' = other.height
    /\ cover' = other.cover
    /\ image' = image
    /\ pc' = other.pc
    /\ calls' = other.calls
    /\ message' = other.message
    /\ max_size' = other.max_size
    /\ chunks' = other.chunks
    /\ chunk_idx' = other.chunk_idx
    /\ x' = other.x
    /\ y' = other.y
    /\ encResult' = other.encResult
    /\ all_bits' = other.all_bits
    /\ pixel_count' = other.pixel_count
    /\ decResult' = other.decResult
    /\ decoded' = other.decoded
    /\ raw' = other.raw
    /\ UNCHANGED <<pixelVars, pairVars, formVars, utilVars>>

(* the running thread is preempted and the other thread runs on *)
ConcSwitch ==
    /\ running' = 3 - running
    /\ other' = ThisThread
    /\ width' = other.width
    /\ height' = other.height
    /\ cover' = other.cover
    /\ image' = other.image
    /\ pc' = other.pc
    /\ calls' = other.calls
    /\ message' = other.message
    /\ max_size' = other.max_size
    /\ chunks' = other.chunks
    /\ chunk_idx' = other.chunk_idx
    /\ x' = other.x
    /\ y' = other.y
    /\ encResult' = other.encResult
    /\ all_bits' = other.all_bits
    /\ pixel_count' = other.pixel_count
    /\ decResult' = other.decResult
    /\ decoded' = other.decoded
    /\ raw' = other.raw
    /\ UNCHANGED <<pixelVars, pairVars, formVars, utilVars>>

ConcNext ==
    \/ \E m \in ConcMessages : EncodeCall(m)
    \/ EncodeStep
    \/ EncodeLoopEnd
    \/ DecodeCall
    \/ DecodeStep
    \/ DecodeFinish
    \/ ConcSwitch

ConcSpec == ConcInit /\ [][ConcNext]_vars

----------------------------------------------------------------------------
(* FormSpec: api/handlers.rs, process_encode_form.  A field of the payload  *)
(* is its name, the chunks its body arrives in (the length of each, or      *)
(* ChunkErr for a chunk that fails to be read), whether the body is valid   *)
(* UTF-8, and what the server's disk does with an upload.                   *)

(* 1024 * 1024 *)
MAX_MESSAGE_LENGTH == 1048576

(* 10 * 1024 * 1024 *)
MAX_IMAGE_SIZE == 10485760

VALIDATION_ERROR == "validation_error"
IMAGE_TOO_LARGE == "image_too_large"
MESSAGE_TOO_LARGE == "message_too_large"
INVALID_IMAGE == "invalid_image"
INTERNAL_ERROR == "internal_error"

ChunkErr == -1

MaxFields == 3

ErrorResponse(status, error_code, msg) ==
    [status |-> status, error_code |-> error_code, message |-> msg]

FormField(name, body, utf8, io) ==
    [item |-> "Ok", name |-> name, chunks |-> body, utf8 |-> utf8, io |-> io]

(* the payload yields Err instead of a field *)
ItemErr == [item |-> "Err", name |-> "", chunks |-> <<>>, utf8 |-> TRUE, io |-> "ok"]

FormFields ==
    { FormField("cover_image", <<1>>, FALSE, "ok"),
      FormField("cover_image", <<MAX_IMAGE_SIZE>>, FALSE, "ok"),
      FormField("cover_image", <<MAX_IMAGE_SIZE, 1>>, FALSE, "ok"),
      FormField("cover_image", <<1, ChunkErr>>, FALSE, "ok"),
      FormField("cover_image", <<1>>, FALSE, "create"),
      FormField("cover_image", <<1>>, FALSE, "write"),
      FormField("message", <<1>>, TRUE, "ok"),
      FormField("message", <<1>>, FALSE, "ok"),
      FormField("message", <<MAX_MESSAGE_LENGTH>>, TRUE, "ok"),
      FormField("message", <<MAX_MESSAGE_LENGTH, 1>>, TRUE, "ok"),
      FormField("message", <<ChunkErr>>, TRUE, "ok"),
      FormField("message_file", <<1>>, FALSE, "ok"),
      FormField("message_file", <<MAX_MESSAGE_LENGTH, 1>>, FALSE, "ok"),
      FormField("message_file", <<ChunkErr, 1>>, FALSE, "ok"),
      FormField("output_format", <<ChunkErr, 1>>, TRUE, "ok"),
      FormField("jpeg_quality", <<1>>, TRUE, "ok"),
      FormField("comment", <<1, ChunkErr>>, TRUE, "ok"),
      ItemErr }

Forms == UNION {[1..n -> FormFields] : n \in 0..MaxFields}

(* the chunk loop of a cover_image field, lines 177-209: NoResponse when    *)
(* the loop ends without a return                                           *)
RECURSIVE save_upload(_, _, _, _)
save_upload(body, i, size, io) ==
    IF i > Len(body) THEN NoResponse
    ELSE IF body[i] = ChunkErr
    THEN ErrorResponse(400, VALIDATION_ERROR, "Error reading upload")
    ELSE IF size + body[i] > MAX_IMAGE_SIZE
    THEN ErrorResponse(400, IMAGE_TOO_LARGE, "Image exceeds maximum size")
    ELSE IF io = "write"
    THEN ErrorResponse(500, INTERNAL_ERROR, "Failed to save uploaded file")
    ELSE save_upload(body, i + 1, size + body[i], io)

(* the chunk loop of a message or message_file field, lines 215-238 and     *)
(* 257-280                                                                  *)
RECURSIVE read_content(_, _, _, _)
read_content(body, i, content_len, what) ==
    IF i > Len(body) THEN NoResponse
    ELSE IF body[i] = ChunkErr
    THEN ErrorResponse(400, VALIDATION_ERROR, what)
    ELSE IF content_len + body[i] > MAX_MESSAGE_LENGTH
    THEN ErrorResponse(400, MESSAGE_TOO_LARGE, "Message exceeds maximum size")
    ELSE read_content(body, i + 1, content_len + body[i], what)

(* the response one iteration of the field loop returns, NoResponse when    *)
(* the loop goes on                                                         *)
field_response(field) ==
    IF field.item = "Err"
    THEN ErrorResponse(400, VALIDATION_ERROR, "Invalid form data")
    ELSE IF field.name = "cover_image"
    THEN IF field.io = "create"
         THEN ErrorResponse(500, INTERNAL_ERROR, "Failed to process uploaded file")
         ELSE save_upload(field.chunks, 1, 0, field.io)
    ELSE IF field.name = "message"
    THEN read_content(field.chunks, 1, 0, "Error reading message")
    ELSE IF field.name = "message_file"
    THEN read_content(field.chunks, 1, 0, "Error reading message file")
    ELSE NoResponse

FormInit ==
    /\ MainIdle
    /\ PixelIdle
    /\ PairIdle
    /\ ConcIdle
    /\ UtilIdle
    /\ form \in Forms
    /\ field_idx = 0
    /\ cover_image_path = "None"
    /\ message_text = "None"
    /\ message_file_content = "None"
    /\ response = NoResponse
    /\ formpc = "fields"

(* one iteration of `while let Some(item) = payload.next().await` *)
FormFieldStep ==
    /\ formpc = "fields"
    /\ field_idx < Len(form)
    /\ LET field == form[field_idx + 1]
           r == field_response(field)
       IN  /\ field_idx' = field_idx + 1
           /\ response' = r
           /\ formpc' = IF r = NoResponse THEN "fields" ELSE "done"
           /\ cover_image_path' =
                 IF r = NoResponse /\ field.name = "cover_image" THEN "Some"
                 ELSE cover_image_path
           /\ message_text' =
                 IF r = NoResponse /\ field.name = "message"
                 THEN IF field.utf8 THEN "Some" ELSE "None"
                 ELSE message_text
           /\ message_file_content' =
                 IF r = NoResponse /\ field.name = "message" /\ ~field.utf8 THEN "Some"
                 ELSE IF r = NoResponse /\ field.name = "message_file" THEN "Some"
                 ELSE message_file_content
    /\ UNCHANGED form
    /\ UNCHANGED <<mainVars, pixelVars, pairVars, concVars, utilVars>>

(* the checks after the loop with the two checks swapped *)
FormPresenceChecks_message_first ==
    /\ formpc = "fields"
    /\ field_idx = Len(form)
    /\ IF message_text = "None" /\ message_file_content = "None"
       THEN /\ response' = ErrorResponse(400, VALIDATION_ERROR, "Missing message content")
            /\ formpc' = "done"
       ELSE IF cover_image_path = "None"
       THEN /\ response' = ErrorResponse(400, VALIDATION_ERROR, "Missing cover image")
            /\ formpc' = "done"
       ELSE /\ response' = response
            /\ formpc' = "load"
    /\ UNCHANGED <<form, field_idx, cover_image_path, message_text, message_file_content>>
    /\ UNCHANGED <<mainVars, pixelVars, pairVars, concVars, utilVars>>

(* the payload is exhausted: lines 324-347 *)
FormPresenceChecks ==
    /\ formpc = "fields"
    /\ field_idx = Len(form)
    /\ IF cover_image_path = "None"
       THEN /\ response' = ErrorResponse(400, VALIDATION_ERROR, "Missing cover image")
            /\ formpc' = "done"
       ELSE IF message_text = "None" /\ message_file_content = "None"
       THEN /\ response' = ErrorResponse(400, VALIDATION_ERROR, "Missing message content")
            /\ formpc' = "done"
       ELSE /\ response' = response
            /\ formpc' = "load"
    /\ UNCHANGED <<form, field_idx, cover_image_path, message_text, message_file_content>>
    /\ UNCHANGED <<mainVars, pixelVars, pairVars, concVars, utilVars>>

(* what lines 349-422 can answer; the uploaded bytes decide which *)
EncodeResponses ==
    { ErrorResponse(400, INVALID_IMAGE, "Failed to load cover image"),
      ErrorResponse(400, MESSAGE_TOO_LARGE, "Message is too large for this image"),
      ErrorResponse(500, INTERNAL_ERROR, "Failed to save encoded image"),
      [status |-> 200, error_code |-> "", message |-> "success"] }

(* lines 349-422: load the cover image, check the capacity, encode, save *)
FormEncode ==
    /\ formpc = "load"
    /\ response' \in EncodeResponses
    /\ formpc' = "done"
    /\ UNCHANGED <<form, field_idx, cover_image_path, message_text, message_file_content>>
    /\ UNCHANGED <<mainVars, pixelVars, pairVars, concVars, utilVars>>

FormNext ==
    \/ FormFieldStep
    \/ FormPresenceChecks
    \/ FormEncode

FormSpec == FormInit /\ [][FormNext]_vars

----------------------------------------------------------------------------
(* UtilSpec: one call of a function of utils.rs *)

MaxUtilBytes == 2
MaxUtilBits == 9
MaxSplitBits == 6
MaxChunkSize == 4
MaxLsbCount == 10

UtilByteValues == {0, 1, 128, 178, 255}

(* limbs of the lengths given to create_header: every byte of the length  *)
(* takes the values 0, 1, 255 and others in some length                     *)
HeaderLimbs == {0, 1, 255, 256, 4660, 43981, 65535}

HeaderLengths == [hi : HeaderLimbs, lo : HeaderLimbs]

(* message.len() is a usize: lengths of 2^32 and more are two limbs with    *)
(* hi >= 2^16                                                               *)
MessageLengths == HeaderLengths \cup {[hi |-> 65536, lo |-> 0], [hi |-> 65536, lo |-> 1],
                                      [hi |-> 65537, lo |-> 256]}

CoverDimensions == {<<8, 3>>, <<1024, 1024>>, <<65535, 700>>, <<65536, 65536>>}

(* dimensions around the widths and heights at which width * height * 3   *)
(* and width * height reach 2^32                                            *)
WideDimensions ==
    {<<8, 3>>, <<1024, 1024>>, <<40000, 40000>>, <<65536, 21845>>, <<65536, 21846>>,
     <<1431655765, 1>>, <<1431655766, 1>>, <<65536, 65535>>, <<65536, 65536>>}

(* the images encoded twice: they hold a message of 1, 2 and 3 bytes *)
TwiceDimensions == {<<8, 3>>, <<9, 3>>, <<6, 5>>}

(* the calls tried: uarg names the function and holds its arguments *)
UtilInit ==
    /\ MainIdle
    /\ PixelIdle
    /\ PairIdle
    /\ ConcIdle
    /\ FormIdle
    /\ \/ \E b \in SeqsUpTo(UtilByteValues, MaxUtilBytes) \cup {<<byte>> : byte \in 0..255} :
             uarg = [fn |-> "bytes_to_bits", bytes |-> b]
       \/ \E v \in SeqsUpTo({0, 1}, MaxUtilBits) :
             uarg = [fn |-> "bits_to_bytes", bits |-> v]
       \/ \E b \in 0..255, k \in (0..MaxLsbCount) \cup {255} :
             uarg = [fn |-> "get_lsbs", byte |-> b, k |-> k]
       \/ \E b \in UtilByteValues \cup {172}, v \in 0..255, k \in (0..MaxLsbCount) \cup {255} :
             uarg = [fn |-> "set_lsbs", byte |-> b, bits |-> v, k |-> k]
       \/ \E l \in HeaderLengths :
             uarg = [fn |-> "create_header", message_length |-> l]
       \/ \E d \in WideDimensions, overflow_checks \in BOOLEAN :
             uarg = [fn |-> "capacity", width |-> d[1], height |-> d[2],
                     overflow_checks |-> overflow_checks]
       \/ \E r \in PixelBytes, g \in PixelBytes, b \in PixelBytes, m \in Bit3 :
             uarg = [fn |-> "encode_pixel", r |-> r, g |-> g, b |-> b, message_bits |-> m]
       \/ \E kind \in CoverKinds, d \in TwiceDimensions, m1 \in Messages, m2 \in Messages :
             uarg = [fn |-> "encode_twice", image |-> CoverImage(kind, d[1], d[2]),
                     width |-> d[1], height |-> d[2], first |-> m1, second |-> m2]
       \/ \E l \in MessageLengths, d \in CoverDimensions :
             uarg = [fn |-> "encode", len |-> l, width |-> d[1], height |-> d[2]]
       \/ \E v \in SeqsUpTo({0, 1}, MaxSplitBits), k \in 0..MaxChunkSize,
             t \in {None} \cup {Some(n) : n \in 0..(MaxSplitBits + MaxChunkSize)} :
             uarg = [fn |-> "split_bits", bits |-> v, chunk_size |-> k, total_bits |-> t]
    /\ ures = <<>>
    /\ upc = "in"

(* bytes_to_bits(bytes), and bits_to_bytes of what it returned *)
UtilBytesToBits ==
    /\ upc = "in"
    /\ uarg.fn = "bytes_to_bits"
    /\ ures' = [bits |-> bytes_to_bits(uarg.bytes),
                back |-> bits_to_bytes(bytes_to_bits(uarg.bytes))]
    /\ upc' = "done"
    /\ UNCHANGED uarg
    /\ UNCHANGED <<mainVars, pixelVars, pairVars, concVars, formVars>>

(* bits_to_bytes(bits), and bytes_to_bits of what it returned *)
UtilBitsToBytes ==
    /\ upc = "in"
    /\ uarg.fn = "bits_to_bytes"
    /\ ures' = [bytes |-> bits_to_bytes(uarg.bits),
                back |-> bytes_to_bits(bits_to_bytes(uarg.bits))]
    /\ upc' = "done"
    /\ UNCHANGED uarg
    /\ UNCHANGED <<mainVars, pixelVars, pairVars, concVars, formVars>>

(* create_header(message_length), and extract_header of the header's bits *)
UtilCreateHeader ==
    /\ upc = "in"
    /\ uarg.fn = "create_header"
    /\ ures' = [header |-> create_header(uarg.message_length),
                back |-> extract_header(bytes_to_bits(create_header(uarg.message_length)))]
    /\ upc' = "done"
    /\ UNCHANGED uarg
    /\ UNCHANGED <<mainVars, pixelVars, pairVars, concVars, formVars>>

(* Encoder::encode up to the header, for a message of uarg.len bytes: the   *)
(* size check, then create_header(message.len() as u32)                     *)
UtilEncodeHeader ==
    /\ upc = "in"
    /\ uarg.fn = "encode"
    /\ ures' = IF WLt(max_message_size(uarg.width, uarg.height), uarg.len)
               THEN [err |-> "MessageTooLarge", header |-> <<>>]
               ELSE [err |-> "none", header |-> create_header(WrapU32(uarg.len))]
    /\ upc' = "done"
    /\ UNCHANGED uarg
    /\ UNCHANGED <<mainVars, pixelVars, pairVars, concVars, formVars>>

(* the bit capacity as encode_message and decode evaluate it, the size     *)
(* max_message_size returns and the header-size check of decode (both from  *)
(* the value a build without overflow checks computes)                      *)
UtilCapacity ==
    /\ upc = "in"
    /\ uarg.fn = "capacity"
    /\ ures' = [total_bits |-> capacity_bits(uarg.width, uarg.height, uarg.overflow_checks),
                max_message_size |-> max_message_size(uarg.width, uarg.height),
                too_small |-> WLt(MulU32(MulU32(W(uarg.width), W(uarg.height)), W(3)),
                                  W(HEADER_SIZE * 8))]
    /\ upc' = "done"
    /\ UNCHANGED uarg
    /\ UNCHANGED <<mainVars, pixelVars, pairVars, concVars, formVars>>

(* Encoder::encode_pixel(r, g, b, message_bits) *)
UtilEncodePixel ==
    /\ upc = "in"
    /\ uarg.fn = "encode_pixel"
    /\ ures' = encode_pixel(uarg.r, uarg.g, uarg.b, uarg.message_bits)
    /\ upc' = "done"
    /\ UNCHANGED uarg
    /\ UNCHANGED <<mainVars, pixelVars, pairVars, concVars, formVars>>

(* encode(image, first), then encode of `second` into the image returned,   *)
(* and encode(image, second) to compare with                                *)
UtilEncodeTwice ==
    /\ upc = "in"
    /\ uarg.fn = "encode_twice"
    /\ \E once \in {encode(uarg.image, uarg.width, uarg.height, uarg.first)} :
          ures' = [once |-> once,
                   twice |-> IF once.err = "Ok"
                             THEN encode(once.val, uarg.width, uarg.height, uarg.second)
                             ELSE once,
                   alone |-> encode(uarg.image, uarg.width, uarg.height, uarg.second)]
    /\ upc' = "done"
    /\ UNCHANGED uarg
    /\ UNCHANGED <<mainVars, pixelVars, pairVars, concVars, formVars>>

(* split_bits(bits, chunk_size), and join_bits of the chunks it returned *)
UtilSplitJoin ==
    /\ upc = "in"
    /\ uarg.fn = "split_bits"
    /\ LET split == split_bits(uarg.bits, uarg.chunk_size)
       IN  ures' = [split |-> split,
                    joined |-> IF split.err = "none"
                               THEN join_bits(split.val, uarg.total_bits)
                               ELSE <<>>]
    /\ upc' = "done"
    /\ UNCHANGED uarg
    /\ UNCHANGED <<mainVars, pixelVars, pairVars, concVars, formVars>>

(* get_lsbs(byte, k) *)
UtilGetLsbs ==
    /\ upc = "in"
    /\ uarg.fn = "get_lsbs"
    /\ ures' = get_lsbs(uarg.byte, uarg.k)
    /\ upc' = "done"
    /\ UNCHANGED uarg
    /\ UNCHANGED <<mainVars, pixelVars, pairVars, concVars, formVars>>

(* set_lsbs(byte, bits, k), and get_lsbs of the byte it returned *)
UtilSetLsbs ==
    /\ upc = "in"
    /\ uarg.fn = "set_lsbs"
    /\ LET set == set_lsbs(uarg.byte, uarg.bits, uarg.k)
       IN  ures' = [set |-> set, get |-> get_lsbs(set.val, uarg.k)]
    /\ upc' = "done"
    /\ UNCHANGED uarg
    /\ UNCHANGED <<mainVars, pixelVars, pairVars, concVars, formVars>>

UtilNext ==
    \/ UtilGetLsbs
    \/ UtilSetLsbs
    \/ UtilBytesToBits
    \/ UtilBitsToBytes
    \/ UtilSplitJoin
    \/ UtilCreateHeader
    \/ UtilEncodeHeader
    \/ UtilEncodePixel
    \/ UtilEncodeTwice
    \/ UtilCapacity

UtilSpec == UtilInit /\ [][UtilNext]_vars

----------------------------------------------------------------------------
(* Properties *)

Lsbs(pixel) == <<pixel[1] % 2, pixel[2] % 2, pixel[3] % 2>>

Xor3(a, b) == [i \in 1..3 |-> Xor(a[i], b[i])]

(* C2: matrix inverse identity.  For the cover vector vc of any pixel and   *)
(* any 3 message bits m, matrix_multiply(vc XOR lookup_vn(matrix_multiply(vc) *)
(* XOR m)) = m, and decode_pixel of the pixel encode_pixel returned is m.   *)
C2_MatrixInverseIdentity ==
    /\ ppc \in {"encoded", "decoded"} =>
          LET vc == Lsbs(pin)
              vs == Xor3(vc, lookup_vn(Xor3(Encoder_matrix_multiply(vc), pmsg)))
          IN  /\ Encoder_matrix_multiply(vs) = pmsg
              /\ Decoder_matrix_multiply(vs) = pmsg
              /\ Lsbs(pout) = vs
    /\ ppc = "decoded" => pdec = pmsg

(* a pixel with cover vector 111 was given message bits 110 and decoded *)
C2_Witness ==
    /\ ppc = "decoded"
    /\ pin = <<123, 123, 255>>
    /\ pmsg = <<1, 1, 0>>
    /\ pout # pin

(* the correction table as section 4.2 of the specification prints it, by value *)
CorrectionTable == <<0, 1, 3, 2, 6, 7, 5, 4>>

Val3(v) == 4 * v[1] + 2 * v[2] + v[3]

(* C3: lookup_vn maps 000->000 001->001 010->011 011->010 100->110 101->111 *)
(* 110->101 111->100, and no other delta has the same image: a bijection.   *)
C3_LookupTableBijection ==
    ppc = "looked" =>
        /\ Len(pvn) = 3
        /\ \A i \in 1..3 : pvn[i] \in {0, 1}
        /\ Val3(pvn) = CorrectionTable[Val3(pmsg) + 1]
        /\ \A d \in Bit3 : d # pmsg => lookup_vn(d) # pvn

(* delta 110 was looked up and gave 101 *)
C3_Witness ==
    /\ ppc = "looked"
    /\ pmsg = <<1, 1, 0>>
    /\ pvn = <<1, 0, 1>>

----------------------------------------------------------------------------
(* Properties of encode and decode on whole images (Spec) *)

EncodeCalled == Count(calls, "encode") = 1

EncodeReturned == EncodeCalled /\ pc # "encoding"

LastCall == IF calls = <<>> THEN "none" ELSE calls[Len(calls)]

DecodeReturned == LastCall = "decode" /\ pc = "idle"

(* decode was called on the image exactly as encode returned it *)
DecodedStego ==
    /\ DecodeReturned
    /\ Len(calls) >= 2
    /\ calls[Len(calls) - 1] = "encode"
    /\ encResult = "Ok"

(* no set_lsb call since encode was called *)
UntouchedSinceEncode ==
    \E k \in 1..Len(calls) :
        /\ calls[k] = "encode"
        /\ \A j \in (k + 1)..Len(calls) : calls[j] # "set_lsb"

(* the quantities of the specification, in unbounded arithmetic *)
CapacityBits == width * height * 3

MaxMessageSize == IF CapacityBits \div 8 - 8 > 0 THEN CapacityBits \div 8 - 8 ELSE 0

(* the first 8 bytes of the bit stream the pixels of an image carry *)
HeaderBytes(img) ==
    bits_to_bytes(SubSeq(extract_raw_bits(SubSeq(img, 1, 22)), 1, 64))

(* C1: round trip.  On an image of at least the minimum capacity (64 bits) *)
(* every message of at most maxMessageSize bytes is accepted by encode, and *)
(* decode of the image encode returned gives back exactly the message.      *)
C1_RoundTrip ==
    /\ (EncodeReturned /\ CapacityBits >= 64 /\ Len(message) <= MaxMessageSize)
          => encResult = "Ok"
    /\ DecodedStego => (decResult = "Ok" /\ decoded = message)

(* a message of the full 2 bytes a 9x3 image holds came back from decode *)
C1_Witness ==
    /\ DecodedStego
    /\ width = 9
    /\ height = 3
    /\ message = <<0, 178>>
    /\ decoded = message

(* C4: non-embedding bits preserved.  After a successful encode the image   *)
(* has as many pixels as the cover, bits 1..7 of every channel are those of *)
(* the cover, and every pixel after the prefix that carried a chunk equals  *)
(* the cover pixel.                                                         *)
C4_NonEmbeddingBitsPreserved ==
    (EncodeReturned /\ encResult = "Ok" /\ UntouchedSinceEncode) =>
        /\ Len(image) = width * height
        /\ Len(image) = Len(cover)
        /\ \A i \in 1..Len(image) : \A c \in 1..3 :
              image[i][c] \div 2 = cover[i][c] \div 2
        /\ \A i \in 1..Len(image) : i > Len(chunks) => image[i] = cover[i]

(* an encode changed LSBs in the prefix and left pixels after it *)
C4_Witness ==
    /\ EncodeReturned
    /\ encResult = "Ok"
    /\ UntouchedSinceEncode
    /\ Len(chunks) < Len(image)
    /\ image # cover
    /\ \E i \in 1..Len(chunks) : image[i] # cover[i] /\ image[i][1] >= 2

(* C5: max_message_size returns max(0, floor(w*h*3/8) - 8). *)
C5_MaxMessageSize ==
    EncodeCalled => max_size = W(MaxMessageSize)

(* a 10x3 image: 90 bits, 11 bytes, 3 after the header; and the clamp is    *)
(* witnessed by the images of fewer than 72 bits, which the same run holds  *)
C5_Witness ==
    /\ EncodeCalled
    /\ width = 10
    /\ height = 3
    /\ max_size = W(3)

(* C6 as claimed: for every image a message of exactly max_message_size     *)
(* bytes is accepted.                                                       *)
C6_ExactCapacityAccepted ==
    (EncodeReturned /\ W(Len(message)) = max_message_size(width, height))
        => encResult = "Ok"

(* the bit capacity as encode_message computes it, encoder.rs line 197 *)
max_bits == MulU32(MulU32(W(width), W(height)), W(3))

(* C6 amended: for every image whose bit capacity, as the encoder computes  *)
(* it, is at least 64 (22 pixels) a message of exactly max_message_size     *)
(* bytes is accepted; a smaller image has max_message_size 0 and rejects    *)
(* the empty message with MessageTooLarge.                                  *)
C6_ExactCapacityAcceptedIfHeaderFits ==
    (EncodeReturned /\ W(Len(message)) = max_message_size(width, height)) =>
        /\ WLe(W(64), max_bits) => encResult = "Ok"
        /\ WLt(max_bits, W(64)) => (message = <<>> /\ encResult = "MessageTooLarge")

(* an 8x3 image (72 bits) accepted a message of exactly 1 byte *)
C6_Witness ==
    /\ EncodeReturned
    /\ width = 8
    /\ height = 3
    /\ Len(message) = 1
    /\ max_size = W(1)
    /\ encResult = "Ok"

(* C7: encode fails with MessageTooLarge whenever the message is longer     *)
(* than maxMessageSize; a 2x2 image rejects every non-empty message.        *)
C7_TooLargeRejected ==
    /\ (EncodeReturned /\ Len(message) > MaxMessageSize) => encResult = "MessageTooLarge"
    /\ (EncodeReturned /\ width = 2 /\ height = 2 /\ message # <<>>)
          => encResult = "MessageTooLarge"

(* an 8x3 image (capacity 1) rejected a message of 2 bytes *)
C7_Witness ==
    /\ EncodeReturned
    /\ width = 8
    /\ height = 3
    /\ Len(message) = 2
    /\ encResult = "MessageTooLarge"

(* C8: encode returns MessageTooLarge exactly when 8 * (8 + len) exceeds    *)
(* width * height * 3 and Ok otherwise: the byte-level check of encode and  *)
(* the bit-level check of encode_message together are this one condition.   *)
C8_TooLargeIffFrameExceedsBits ==
    EncodeReturned =>
        /\ encResult = "MessageTooLarge" <=> 8 * (8 + Len(message)) > CapacityBits
        /\ encResult = "Ok" <=> 8 * (8 + Len(message)) <= CapacityBits
        /\ LastCall = "encode" =>
              ((encode_too_large(message, width, height)
                  \/ encode_message_too_large(bytes_to_bits(full_message(message)), width, height))
               <=> 8 * (8 + Len(message)) > CapacityBits)

(* the empty message passed the byte-level check of a 7x3 image (63 bits)   *)
(* and was rejected by the bit-level check                                  *)
C8_Witness ==
    /\ EncodeReturned
    /\ width = 7
    /\ height = 3
    /\ message = <<>>
    /\ ~encode_too_large(message, width, height)
    /\ encResult = "MessageTooLarge"

DeclaredLength(img) ==
    LET hb == HeaderBytes(img)
    IN  [hi |-> hb[2] * 256 + hb[3], lo |-> hb[4] * 256 + hb[5]]

(* C10: header rejection.  Decoding an image of at least 22 pixels whose    *)
(* first 22 pixels carry a format version other than 1 fails with           *)
(* InvalidParameters, whatever length the header declares.                  *)
C10_HeaderRejection ==
    (DecodeReturned /\ width * height >= 22 /\ HeaderBytes(image)[1] # 1)
        => decResult = "InvalidParameters"

(* a decode failed on the version although the declared length did not fit *)
C10_Witness ==
    /\ DecodeReturned
    /\ width * height >= 22
    /\ HeaderBytes(image)[1] # 1
    /\ WLt(W(width * height), total_pixels_needed(DeclaredLength(image)))
    /\ decResult = "InvalidParameters"

(* C11: decode of an image with width * height * 3 < 64 fails with          *)
(* NoMessageFound without reading any pixel: the pixel loop is never        *)
(* entered, no pixel is counted and no bit is accumulated.                  *)
C11_SmallImageNoMessageFound ==
    (LastCall = "decode" /\ CapacityBits < 64) =>
        /\ pc = "idle"
        /\ decResult = "NoMessageFound"
        /\ pixel_count = 0
        /\ all_bits = <<>>
        /\ decoded = <<>>

(* a 7x3 image (63 bits, one short of the header) was given to decode *)
C11_Witness ==
    /\ LastCall = "decode"
    /\ width = 7
    /\ height = 3
    /\ decResult = "NoMessageFound"
    /\ pixel_count = 0

(* the header the pixels carry declares more bytes than the image holds     *)
(* after a frame header: 64 + 8 L > width * height * 3                      *)
DeclaredTooLong(img) == WLt(W((CapacityBits - 64) \div 8), DeclaredLength(img))

(* C12: decoding an image whose header has version 1 but declares a length  *)
(* L with ceil((64 + 8 L) / 3) greater than the pixel count fails with      *)
(* NoMessageFound and returns no message bytes.                             *)
C12_OverlongLengthRejected ==
    (DecodeReturned /\ width * height >= 22 /\ HeaderBytes(image)[1] = 1
        /\ DeclaredTooLong(image))
        => (decResult = "NoMessageFound" /\ decoded = <<>>)

(* the top length bit of an encoded header was flipped, so that it declares *)
(* 2^31 bytes or more, and decode failed                                    *)
C12_Witness ==
    /\ DecodeReturned
    /\ width * height >= 22
    /\ HeaderBytes(image)[1] = 1
    /\ DeclaredLength(image).hi >= 32768
    /\ DeclaredTooLong(image)
    /\ decResult = "NoMessageFound"

(* encode returned an error *)
EncodeFailed == EncodeReturned /\ encResult \notin {"none", "Ok"}

(* C13: no partial embedding.  When encode returns an error no pixel was    *)
(* written before: the image is the cover and no chunk was embedded; and    *)
(* the pixel loop runs only after the byte-level and the bit-level capacity *)
(* checks have both passed.                                                 *)
C13_NoPartialEmbedding ==
    /\ EncodeFailed => (image = cover /\ chunk_idx = 0)
    /\ (LastCall = "encode" /\ (pc = "encoding" \/ chunk_idx > 0)) =>
          /\ ~encode_too_large(message, width, height)
          /\ ~encode_message_too_large(bytes_to_bits(full_message(message)), width, height)

(* the empty message was rejected by the bit-level check of a 7x3 image     *)
(* whose first pixel would have changed, and the image is the cover         *)
C13_Witness ==
    /\ EncodeFailed
    /\ width = 7
    /\ height = 3
    /\ message = <<>>
    /\ cover[1] = <<123, 127, 135>>
    /\ image = cover

(* the frame of section 3 of the specification for a message of fewer than  *)
(* 65536 bytes: version 1, the length big-endian, three reserved zero bytes, *)
(* then the message                                                         *)
FrameBytes(m) == <<1, 0, 0, Len(m) \div 256, Len(m) % 256, 0, 0, 0>> \o m

(* bit k (from 0) of a byte sequence, the most significant bit of a byte first *)
FrameBit(F, k) == (F[(k \div 8) + 1] \div Pow2(7 - (k % 8))) % 2

(* extract_raw_data was called on the image exactly as encode returned it *)
RawOfStego ==
    /\ calls = <<"encode", "extract_raw_data">>
    /\ encResult = "Ok"

(* C14: wire format.  Chunk i is embedded in the pixel of row-major index i *)
(* (x = i mod width, y = i div width); exactly ceil(8 * (8 + len) / 3)      *)
(* pixels are written; the concatenation of decode_pixel over the pixels in *)
(* row-major order starts with the 8 * (8 + len) bits of header || message, *)
(* each byte most significant bit first, with nothing between them; and     *)
(* extract_raw_data of the encoded image starts with the 8 header bytes     *)
(* followed by the message.                                                 *)
C14_WireFormat ==
    /\ (EncodeCalled /\ pc = "encoding") =>
          /\ x = chunk_idx % width
          /\ y = chunk_idx \div width
    /\ (LastCall = "encode" /\ encResult \in {"none", "Ok"}) =>
          LET F == FrameBytes(message)
              stream == extract_raw_bits(image)
          IN  /\ \A k \in 0..(Min(3 * chunk_idx, 8 * Len(F)) - 1) : stream[k + 1] = FrameBit(F, k)
              /\ \A i \in (chunk_idx + 1)..Len(image) : image[i] = cover[i]
    /\ (EncodeReturned /\ encResult = "Ok") =>
          chunk_idx = (8 * (8 + Len(message)) + 2) \div 3
    /\ RawOfStego =>
          /\ Len(raw) >= 8 + Len(message)
          /\ SubSeq(raw, 1, 8 + Len(message)) = FrameBytes(message)

(* the raw data of a 9x3 image holding <<178, 0>> was extracted: 80 bits in *)
(* 27 pixels, the last chunk padded, and the pixels changed                 *)
C14_Witness ==
    /\ RawOfStego
    /\ width = 9
    /\ height = 3
    /\ message = <<178, 0>>
    /\ chunk_idx = 27
    /\ image # cover
    /\ SubSeq(raw, 1, 10) = <<1, 0, 0, 0, 2, 0, 0, 0, 178, 0>>

(* the bit stream of img without the bits of the reserved header bytes *)
StreamOutsideReserved(img) ==
    LET stream == extract_raw_bits(img)
    IN  [k \in 1..Len(stream) |-> IF (k - 1) \in ReservedBits THEN 0 ELSE stream[k]]

(* the two images differ at most in the pixel LSBs that carry reserved bits *)
DifferOnlyInReserved ==
    /\ Len(imageA) = Len(imageB)
    /\ \A i \in 1..Len(imageA) : \A c \in 1..3 : imageA[i][c] \div 2 = imageB[i][c] \div 2
    /\ StreamOutsideReserved(imageA) = StreamOutsideReserved(imageB)

(* C15: the reserved bytes are ignored.  Two images that differ only in the *)
(* pixel LSBs that carry header bytes 5..7 (stream bits 40..63) give the    *)
(* same decode result.                                                      *)
C15_ReservedBytesIgnored ==
    (pairpc = "both" /\ DifferOnlyInReserved) => outA = outB

(* a stego image holding <<0, 178>> and the image with all 24 reserved bits *)
(* set were decoded                                                         *)
C15_Witness ==
    /\ pairpc = "both"
    /\ DifferOnlyInReserved
    /\ imageA # imageB
    /\ pair_w * pair_h >= 22
    /\ SubSeq(HeaderBytes(imageA), 1, 8) = <<1, 0, 0, 0, 2, 0, 0, 0>>
    /\ SubSeq(HeaderBytes(imageB), 1, 8) = <<1, 0, 0, 0, 2, 255, 255, 255>>
    /\ outA = [err |-> "Ok", val |-> <<0, 178>>]
    /\ outB = outA

(* what encode returns for each image and message of ConcSpec when it runs  *)
(* alone                                                                    *)
AloneEncode ==
    [c \in ConcImages, m \in ConcMessages |-> encode(c.img, c.w, c.h, m)]

(* the images a thread of ConcSpec can hold when it calls decode *)
ConcDecodeImages ==
    {c.img : c \in ConcImages}
        \cup {AloneEncode[p[1], p[2]].val :
                  p \in {q \in ConcImages \X ConcMessages : AloneEncode[q[1], q[2]].err = "Ok"}}

(* what decode returns for each of them when it runs alone *)
AloneDecode ==
    [i \in ConcDecodeImages |-> decode(i, 8, 3)]

(* what the calls of a thread returned is what encode and decode return for *)
(* the image the thread started with                                        *)
ResultsAsAlone(t) ==
    /\ (t.calls # <<>> /\ t.calls[1] = "encode" /\ t.pc # "encoding") =>
          LET c == [w |-> t.width, h |-> t.height, img |-> t.cover]
              e == AloneEncode[c, t.message]
          IN  /\ c \in ConcImages
              /\ e.err = t.encResult
              /\ e.err = "Ok" => e.val = t.image
              /\ e.err # "Ok" => t.image = t.cover
    /\ (t.calls # <<>> /\ t.calls[Len(t.calls)] = "decode" /\ t.pc = "idle") =>
          /\ t.image \in ConcDecodeImages
          /\ AloneDecode[t.image] = [err |-> t.decResult, val |-> t.decoded]

HasField(name) == \E i \in 1..Len(form) : form[i].item = "Ok" /\ form[i].name = name

Responded == form # <<>> /\ formpc = "done"

MissingCoverImage == ErrorResponse(400, VALIDATION_ERROR, "Missing cover image")

(* the one message of the handler that contains 'Missing message' *)
MissingMessage == ErrorResponse(400, VALIDATION_ERROR, "Missing message content")

(* C17 as claimed: a form without a cover_image field is answered with 400, *)
(* validation_error, 'Missing cover image', whatever other fields it has; a *)
(* form with a cover image but neither message nor message_file is answered *)
(* with 400, validation_error, 'Missing message'.                           *)
C17_MissingFieldsRejected ==
    /\ (Responded /\ ~HasField("cover_image")) => response = MissingCoverImage
    /\ (Responded /\ HasField("cover_image") /\ ~HasField("message")
            /\ ~HasField("message_file")) => response = MissingMessage

(* every field of the form is read to its end: no part is malformed, no     *)
(* chunk of a cover_image, message or message_file field fails to be read,  *)
(* no message exceeds MAX_MESSAGE_LENGTH, no cover image exceeds            *)
(* MAX_IMAGE_SIZE, and the upload is stored without an I/O error            *)
AllFieldsRead == \A i \in 1..Len(form) : field_response(form[i]) = NoResponse

(* C17 amended: when every field of the form is read to its end, a form     *)
(* without a cover_image field is answered with 400, validation_error,      *)
(* 'Missing cover image', and a form with a cover image but neither message *)
(* nor message_file with 400, validation_error, 'Missing message content'.  *)
C17_MissingFieldsRejectedIfRead ==
    (Responded /\ AllFieldsRead) =>
        /\ ~HasField("cover_image") => response = MissingCoverImage
        /\ (HasField("cover_image") /\ ~HasField("message") /\ ~HasField("message_file"))
              => response = MissingMessage

(* a form with a message and an output format but no cover image *)
C17_Witness ==
    /\ formpc = "done"
    /\ form = <<FormField("message", <<1>>, TRUE, "ok"),
                FormField("output_format", <<ChunkErr, 1>>, TRUE, "ok")>>
    /\ field_idx = 2
    /\ message_text = "Some"
    /\ response = MissingCoverImage

(* C18: encode_pixel(r, g, b, m) leaves bits 1..7 of r, g and b as they are *)
(* and sets the three LSBs to vc XOR lookup_vn(matrix_multiply(vc) XOR m),  *)
(* vc being the LSBs of r, g, b; for (123, 127, 135) and m = 110 it returns *)
(* (123, 126, 135).                                                         *)
C18_EncodePixel ==
    ppc = "encoded" =>
        LET vc == Lsbs(pin)
        IN  /\ \A c \in 1..3 : pout[c] \div 2 = pin[c] \div 2
            /\ \A c \in 1..3 : pout[c] \in 0..255
            /\ Lsbs(pout) = Xor3(vc, lookup_vn(Xor3(Encoder_matrix_multiply(vc), pmsg)))
            /\ (pin = <<123, 127, 135>> /\ pmsg = <<1, 1, 0>>) => pout = <<123, 126, 135>>

(* the example of test_encode_pixel_example: only the LSB of g flips *)
C18_Witness ==
    /\ ppc = "encoded"
    /\ pin = <<123, 127, 135>>
    /\ pmsg = <<1, 1, 0>>
    /\ pout = <<123, 126, 135>>

(* C19: with the columns 001, 011, 111 matrix_multiply returns              *)
(* [v0, v0 XOR v1, v0 XOR v1 XOR v2] for every 3-bit v, and the encoder's   *)
(* and the decoder's matrix_multiply return the same vector.                *)
C19_MatrixMultiply ==
    /\ columns = << <<0, 0, 1>>, <<0, 1, 1>>, <<1, 1, 1>> >>
    /\ ppc = "multiplied" =>
          /\ pz = <<pmsg[1], Xor(pmsg[1], pmsg[2]), Xor(Xor(pmsg[1], pmsg[2]), pmsg[3])>>
          /\ pzd = pz

(* v = 101 gives 110 in the encoder and in the decoder *)
C19_Witness ==
    /\ ppc = "multiplied"
    /\ pmsg = <<1, 0, 1>>
    /\ pz = <<1, 1, 0>>
    /\ pzd = <<1, 1, 0>>

(* the early check of line 162 and the final check of line 177 for the      *)
(* length the header of img declares                                        *)
EarlyCheckPasses(img, w, h) ==
    WLe(total_pixels_needed(DeclaredLength(img)), MulU32(W(w), W(h)))

FinalCheckPasses(img, w, h) ==
    WLe(WAdd(W(HEADER_SIZE * 8), WMulSmall(DeclaredLength(img), 8)), W(3 * w * h))

(* C20: the early header check is not separately observable.  decode        *)
(* returns for every image what a decoder returns that scans all pixels and *)
(* applies only the final check, and for the declared length L the early    *)
(* check ceil((64 + 8 L) / 3) <= width * height passes exactly when the     *)
(* final check 3 * width * height >= 64 + 8 L passes.                       *)
C20_EarlyCheckNotObservable ==
    /\ pairpc \in {"a", "both"} =>
          /\ outA = decode_final_only(imageA, pair_w, pair_h)
          /\ pair_w * pair_h >= required_pixels =>
                (EarlyCheckPasses(imageA, pair_w, pair_h)
                    <=> FinalCheckPasses(imageA, pair_w, pair_h))
    /\ pairpc = "both" => outB = decode_final_only(imageB, pair_w, pair_h)

(* a 22-pixel image whose header declares 1 byte: the early check rejects   *)
(* it in iteration 22, the final check would have after the scan            *)
C20_Witness ==
    /\ pairpc = "a"
    /\ pair_w = 11
    /\ pair_h = 2
    /\ HeaderBytes(imageA) = <<1, 0, 0, 0, 1, 0, 0, 0>>
    /\ ~EarlyCheckPasses(imageA, pair_w, pair_h)
    /\ outA = [err |-> "NoMessageFound", val |-> <<>>]

(* C21: fail-fast.  On an image of at least 22 pixels decode neither parses *)
(* the header nor returns before it has scanned the 22nd pixel; if the      *)
(* header the first 22 pixels carry has a version other than 1, or declares *)
(* a length that needs more pixels than the image has, decode returns the   *)
(* error with exactly 22 pixels read, so no pixel of row-major index >= 22  *)
(* is read (the header is looked at when the 22nd pixel has been read and   *)
(* when decode has returned; the scan beyond it is a continuation of a      *)
(* state with 22 pixels read).                                              *)
C21_FailFast ==
    (LastCall = "decode" /\ width * height >= 22) =>
        /\ pixel_count < 22 => (pc = "decoding" /\ decResult = "none")
        /\ pc = "decoding" => decResult = "none"
        /\ (pixel_count = 22 \/ (pixel_count > 22 /\ pc = "idle")) =>
              IF HeaderBytes(image)[1] # 1
              THEN pixel_count = 22 /\ pc = "idle" /\ decResult = "InvalidParameters"
              ELSE IF ~FinalCheckPasses(image, width, height)
              THEN pixel_count = 22 /\ pc = "idle" /\ decResult = "NoMessageFound"
              ELSE decResult \in {"none", "Ok"}

(* a 33-pixel image whose version byte was changed after encode: decode     *)
(* stopped at the 22nd pixel                                                *)
C21_Witness ==
    /\ LastCall = "decode"
    /\ width = 11
    /\ height = 3
    /\ HeaderBytes(image)[1] # 1
    /\ pixel_count = 22
    /\ Len(all_bits) = 66
    /\ pc = "idle"
    /\ decResult = "InvalidParameters"

(* C22: decode makes one linear pass.  The pixels are read in row-major     *)
(* order, each at most once: the pixel read next is the one whose row-major *)
(* index is the number of pixels read so far, and never more than           *)
(* width * height pixels are read, the final parse of the header included.  *)
(* A message is returned only when all pixels have been read, the version   *)
(* is 1 and the declared length passes the early and the final check.       *)
C22_OneLinearPass ==
    LastCall = "decode" =>
        /\ pixel_count <= width * height
        /\ Len(all_bits) = 3 * pixel_count
        /\ pc = "decoding" => (x < width /\ y * width + x = pixel_count)
        /\ pc = "idle" => all_bits = extract_raw_bits(SubSeq(image, 1, pixel_count))
        /\ decResult = "Ok" =>
              /\ pc = "idle"
              /\ pixel_count = width * height
              /\ HeaderBytes(image)[1] = 1
              /\ EarlyCheckPasses(image, width, height)
              /\ FinalCheckPasses(image, width, height)

(* a 2-byte message came back from 27 pixels, each read once *)
C22_Witness ==
    /\ LastCall = "decode"
    /\ pc = "idle"
    /\ width = 9
    /\ height = 3
    /\ decResult = "Ok"
    /\ decoded = <<178, 0>>
    /\ pixel_count = 27
    /\ Len(all_bits) = 81

Called(fn) == upc = "done" /\ uarg.fn = fn

Zeros(n) == [k \in 1..n |-> 0]

(* C23: byte / bit round trip.  bytes_to_bits(b) has 8 * Len(b) bits, each  *)
(* byte MSB first, and bits_to_bytes brings back b; bits_to_bytes(v) has    *)
(* ceil(Len(v) / 8) bytes, which expand to v followed by zero bits up to    *)
(* the next multiple of 8.                                                  *)
C23_ByteBitRoundTrip ==
    /\ Called("bytes_to_bits") =>
          LET b == uarg.bytes
          IN  /\ Len(ures.bits) = 8 * Len(b)
              /\ \A i \in 1..Len(b) : \A j \in 0..7 :
                    ures.bits[8 * (i - 1) + j + 1] = (b[i] \div Pow2(7 - j)) % 2
              /\ ures.back = b
    /\ Called("bits_to_bytes") =>
          LET v == uarg.bits
              count == (Len(v) + 7) \div 8
          IN  /\ Len(ures.bytes) = count
              /\ \A i \in 1..count : ures.bytes[i] \in 0..255
              /\ ures.back = v \o Zeros(8 * count - Len(v))

(* 9 bits, the last one 1: two bytes, the second 128 *)
C23_Witness ==
    /\ Called("bits_to_bytes")
    /\ uarg.bits = <<1, 0, 1, 1, 0, 0, 1, 0, 1>>
    /\ ures.bytes = <<178, 128>>
    /\ Len(ures.back) = 16

(* C24: for chunk_size k >= 1 split_bits returns ceil(Len(bits) / k) chunks *)
(* of exactly k bits, consecutive pieces of bits, the last padded with      *)
(* zeros on the right; join_bits of them with total Len(bits) is bits;      *)
(* join_bits only truncates: with no total, or a total not below the length *)
(* of the concatenation, it returns the concatenation; split_bits with      *)
(* k = 0 fails with InvalidParameters.                                      *)
C24_SplitJoin ==
    Called("split_bits") =>
        LET v == uarg.bits
            k == uarg.chunk_size
            t == uarg.total_bits
            out == ures.split.val
            count == (Len(v) + k - 1) \div k
            padded == v \o Zeros(count * k - Len(v))
        IN  IF k = 0
            THEN ures.split.err = "InvalidParameters"
            ELSE /\ ures.split.err = "none"
                 /\ Len(out) = count
                 /\ \A c \in 1..count :
                       /\ Len(out[c]) = k
                       /\ \A j \in 1..k : out[c][j] = padded[(c - 1) * k + j]
                 /\ t = Some(Len(v)) => ures.joined = v
                 /\ (~t.some \/ t.len >= Len(padded)) => ures.joined = padded
                 /\ (t.some /\ t.len < Len(padded)) => ures.joined = SubSeq(padded, 1, t.len)

(* 5 bits in chunks of 3 with a total of 7: the padded 6 bits come back *)
C24_Witness ==
    /\ Called("split_bits")
    /\ uarg.bits = <<1, 0, 1, 1, 1>>
    /\ uarg.chunk_size = 3
    /\ uarg.total_bits = Some(7)
    /\ ures.split.val = << <<1, 0, 1>>, <<1, 1, 0>> >>
    /\ ures.joined = <<1, 0, 1, 1, 1, 0>>

(* C25: for k in 1..8 get_lsbs(b, k) is b mod 2^k, set_lsbs(b, v, k) has    *)
(* the upper 8 - k bits of b and the low k bits v mod 2^k, and get_lsbs of  *)
(* it is v mod 2^k; for k = 0 and k > 8 both fail with InvalidParameters.   *)
C25_GetSetLsbs ==
    /\ Called("get_lsbs") =>
          IF uarg.k \in 1..8
          THEN ures = [err |-> "none", val |-> uarg.byte % Pow2(uarg.k)]
          ELSE ures.err = "InvalidParameters"
    /\ Called("set_lsbs") =>
          IF uarg.k \in 1..8
          THEN /\ ures.set.err = "none"
               /\ ures.set.val \in 0..255
               /\ ures.set.val \div Pow2(uarg.k) = uarg.byte \div Pow2(uarg.k)
               /\ ures.set.val % Pow2(uarg.k) = uarg.bits % Pow2(uarg.k)
               /\ ures.get = [err |-> "none", val |-> uarg.bits % Pow2(uarg.k)]
          ELSE ures.set.err = "InvalidParameters" /\ ures.get.err = "InvalidParameters"

(* the example of the documentation with a value that has upper bits set:   *)
(* 0b10101100 with the 3 LSBs of 0b11111101 is 0b10101101                   *)
C25_Witness ==
    /\ Called("set_lsbs")
    /\ uarg.byte = 172
    /\ uarg.bits = 253
    /\ uarg.k = 3
    /\ ures.set.val = 173
    /\ ures.get.val = 5

(* C26: for a 32-bit length L, create_header(L) is the 8 bytes               *)
(* [1, L>>24, L>>16, L>>8, L (each mod 256), 0, 0, 0] and extract_header of  *)
(* its bits returns version 1 and L; the header of a message that encode    *)
(* accepts carries the length of the message, not a truncation of it        *)
C26_HeaderRoundTrip ==
    /\ Called("create_header") =>
          LET L == uarg.message_length
          IN  /\ ures.header = << 1, L.hi \div 256, L.hi % 256, L.lo \div 256, L.lo % 256, 0, 0, 0 >>
              /\ ures.back = [err |-> "none", version |-> 1, length |-> L]
    /\ (Called("encode") /\ ures.err = "none") =>
          /\ extract_header(bytes_to_bits(ures.header)).length = uarg.len
          /\ uarg.len.hi < 65536

C26_Witness ==
    /\ Called("create_header")
    /\ uarg.message_length = [hi |-> 43981, lo |-> 4660]
    /\ ures.header = <<1, 171, 205, 18, 52, 0, 0, 0>>
    /\ ures.back.length = [hi |-> 43981, lo |-> 4660]

C26_Witness_Accepted ==
    /\ Called("encode")
    /\ uarg.len = [hi |-> 256, lo |-> 0]
    /\ ures.err = "none"
    /\ ures.header = <<1, 1, 0, 0, 0, 0, 0, 0>>

(* C27: encode and decode run to completion: a call that has entered its    *)
(* pixel loop returns a result or an error, after at most width * height    *)
(* pixel steps, each at the next pixel in row-major order (no pixel is      *)
(* visited again), and a call that has returned has a result                *)
C27_Termination ==
    /\ [](pc = "encoding" => (chunk_idx <= width * height /\ chunk_idx = y * width + x))
    /\ [](pc = "decoding" => (pixel_count <= width * height /\ pixel_count = y * width + x))
    /\ []((pc = "idle" /\ LastCall = "encode") => encResult # "none")
    /\ []((pc = "idle" /\ LastCall = "decode") => decResult # "none")
    /\ (pc \in {"encoding", "decoding"}) ~> (pc = "idle")

C27_Witness ==
    /\ calls = <<"encode">>
    /\ pc = "idle"
    /\ encResult = "Ok"
    /\ width = 8
    /\ height = 3
    /\ chunk_idx = width * height
    /\ y = height

(* the pixels a message of n bytes is embedded in: the chunks of its frame *)
PixelsUsed(n) == (8 * (HEADER_SIZE + n) + 2) \div 3

(* C28: the LSBs of the pixel encode_pixel returns are                      *)
(* [m0, m0 XOR m1, m1 XOR m2] whatever the cover pixel is; encoding the     *)
(* same message into the image encode returned gives that image again; and *)
(* encoding another message into it gives, on the pixels that message uses, *)
(* the pixels of encoding it into the cover, the other pixels staying as    *)
(* the first encode left them                                               *)
C28_StegoLsbsFromMessageOnly ==
    /\ Called("encode_pixel") =>
          LET m == uarg.message_bits
          IN  Lsbs(ures) = <<m[1], Xor(m[1], m[2]), Xor(m[2], m[3])>>
    /\ (Called("encode_twice") /\ ures.once.err = "Ok") =>
          /\ uarg.first = uarg.second => ures.twice = ures.once
          /\ ures.twice.err = ures.alone.err
          /\ ures.twice.err = "Ok" =>
                \A i \in 1..(uarg.width * uarg.height) :
                    ures.twice.val[i] = IF i <= PixelsUsed(Len(uarg.second))
                                        THEN ures.alone.val[i]
                                        ELSE ures.once.val[i]

C28_Witness ==
    /\ Called("encode_twice")
    /\ uarg.width = 6
    /\ uarg.height = 5
    /\ uarg.image = CoverImage("mixed", 6, 5)
    /\ uarg.first = <<178, 0>>
    /\ uarg.second = <<178>>
    /\ ures.once.err = "Ok"
    /\ ures.twice.err = "Ok"
    /\ ures.twice.val # ures.once.val
    /\ ures.twice.val # ures.alone.val
    /\ SubSeq(ures.twice.val, 1, 24) = SubSeq(ures.alone.val, 1, 24)

(* the mathematical product of two dimensions, in two limbs with no upper  *)
(* limit on hi (for products below 2^47, which those of WideDimensions are) *)
Product(a, b) ==
    LET ll == WMul16(a.lo, b.lo)
    IN  [hi |-> a.hi * b.hi * 65536 + a.hi * b.lo + a.lo * b.hi + ll.hi, lo |-> ll.lo]

MathBits(w, h) == WMulSmall(Product(W(w), W(h)), 3)

(* C29: the bit capacity width * height * 3 evaluated in 32-bit arithmetic  *)
(* is the mathematical product for every width and height, so the size      *)
(* max_message_size returns and the header-size check of decode rest on the *)
(* mathematical product                                                     *)
C29_CapacityIsMathematicalProduct ==
    Called("capacity") =>
        LET bits == MathBits(uarg.width, uarg.height)
            bytes == WDivSmall(bits, 8)
        IN  /\ ures.total_bits = [panic |-> FALSE, val |-> bits]
            /\ ures.max_message_size =
                  IF WLe(bytes, W(HEADER_SIZE)) THEN W(0) ELSE WSub(bytes, W(HEADER_SIZE))
            /\ ures.too_small = WLt(bits, W(HEADER_SIZE * 8))

(* 1431655766 x 1: 3 * 1431655766 = 2^32 + 2, the capacity computed is 2    *)
(* bits, max_message_size is 0 and decode finds the image too small         *)
C29_Witness ==
    /\ Called("capacity")
    /\ uarg.width = 1431655766
    /\ uarg.height = 1
    /\ ~uarg.overflow_checks
    /\ ures.total_bits = [panic |-> FALSE, val |-> W(2)]
    /\ ures.max_message_size = W(0)
    /\ ures.too_small

(* within 32 bits the capacity is the mathematical product *)
C29_ExactBelowOverflow ==
    (Called("capacity") /\ MathBits(uarg.width, uarg.height).hi < 65536) =>
        /\ ures.total_bits = [panic |-> FALSE, val |-> MathBits(uarg.width, uarg.height)]
        /\ ures.too_small = WLt(MathBits(uarg.width, uarg.height), W(HEADER_SIZE * 8))

(* C30: every call of get_pixel_rgb and set_pixel_rgb that encode and       *)
(* decode make has x < width and y < height, so neither returns the         *)
(* accessor's InvalidParameters (decode returns InvalidParameters only for  *)
(* a header whose version is not 1), and encode returns Ok only when every  *)
(* chunk has been embedded                                                  *)
C30_AccessorsInBounds ==
    /\ (pc = "encoding" /\ y < height /\ chunk_idx < Len(chunks)) =>
          /\ x < width
          /\ get_pixel_rgb(image, width, height, x, y).err = "none"
          /\ set_pixel_rgb(image, width, height, x, y, <<0, 0, 0>>).err = "none"
    /\ (pc = "decoding" /\ y < height) =>
          /\ x < width
          /\ get_pixel_rgb(image, width, height, x, y).err = "none"
    /\ encResult \in {"none", "Ok", "MessageTooLarge"}
    /\ (LastCall = "decode" /\ decResult = "InvalidParameters") =>
          (pixel_count = required_pixels /\ HeaderBytes(image)[1] # EXPECTED_FORMAT_VERSION)
    /\ encResult = "Ok" => chunk_idx = Len(chunks)

C30_Witness ==
    /\ LastCall = "decode"
    /\ pc = "idle"
    /\ encResult = "Ok"
    /\ decResult = "Ok"
    /\ chunk_idx = Len(chunks)
    /\ chunk_idx = 27
    /\ pixel_count = width * height
    /\ x = 0
    /\ y = height

====
